---- MODULE Spec2Model ----
(***************************************************************************)
(* Surgical procedure service (ms-procedures): porte validation, price     *)
(* model, audit policy and the procedure lifecycle of SurgeryService, with *)
(* Prisma storage and the event bus as the collaborators they call.        *)
(***************************************************************************)
EXTENDS Integers, Sequences, FiniteSets, TLC

VARIABLES
    rules,       \* port_validation_rules: procedureCode -> rule row (or none)
    http,        \* last request/response of ProcedureController.validatePorte
    probe,       \* last application of calculateBasePrice / requiresAudit
    patients,    \* ids of the rows of table patients
    procedures,  \* table procedures, in creation order; the id is the index
    auditLog,    \* table audit_logs, in insertion order
    events,      \* publish calls made on eventBusService, in call order
    busConnected,\* EventBusService.client # null /\ isConnected
    portValidations, \* table port_validations, in insertion order
    now,         \* the clock of the server and of the database
    stats,       \* the getProcedureStats call in flight, and the one before it
    metrics,     \* the call in flight of the other operations of AnalyticsService
    calls,       \* the requests in flight: client -> position, arguments, locals
    lastWrite,   \* per procedure: the latest write of its classification fields
    ncalls       \* requests received so far

vars == <<rules, http, probe, patients, procedures, auditLog, events,
          busConnected, portValidations, now, stats, metrics, calls, lastWrite, ncalls>>

(***************************************************************************)
(* Bounds of the model.                                                    *)
(***************************************************************************)
MaxPort == 3         \* rule ports range over 0..MaxPort
MaxDuration == 150   \* durations probed on the price model: -MaxDuration..MaxDuration
MaxCalls == 3        \* requests received by the service

(***************************************************************************)
(* JavaScript values of a request body field: a number, a string (a        *)
(* sequence of one-character strings), absent (undefined) or NaN.          *)
(***************************************************************************)
Num(n) == [t |-> "num", n |-> n, s |-> <<>>]
Str(s) == [t |-> "str", n |-> 0, s |-> s]
Absent == [t |-> "absent", n |-> 0, s |-> <<>>]
NaN == [t |-> "nan", n |-> 0, s |-> <<>>]

\* !v is FALSE: JavaScript truthiness
Truthy(v) ==
    CASE v.t = "num" -> v.n # 0
      [] v.t = "str" -> v.s # <<>>
      [] OTHER -> FALSE

DigitChars == <<"0", "1", "2", "3", "4", "5", "6", "7", "8", "9">>

IsDigit(ch) == \E i \in 1..10 : DigitChars[i] = ch

DigitVal(ch) == (CHOOSE i \in 1..10 : DigitChars[i] = ch) - 1

RECURSIVE DigitsOf(_)
DigitsOf(n) ==
    IF n < 10 THEN <<DigitChars[n + 1]>>
    ELSE DigitsOf(n \div 10) \o <<DigitChars[(n % 10) + 1]>>

\* String(v): what parseInt sees of its argument
StringOf(v) ==
    CASE v.t = "num" -> IF v.n < 0 THEN <<"-">> \o DigitsOf(-v.n) ELSE DigitsOf(v.n)
      [] v.t = "str" -> v.s
      [] v.t = "nan" -> <<"N", "a", "N">>
      [] OTHER -> <<"u", "n", "d", "e", "f", "i", "n", "e", "d">>

RECURSIVE SkipSpaces(_)
SkipSpaces(s) ==
    IF s # <<>> /\ Head(s) = " " THEN SkipSpaces(Tail(s)) ELSE s

\* the value of the longest prefix of digits of s, continuing from acc
RECURSIVE ReadDigits(_, _)
ReadDigits(s, acc) ==
    IF s # <<>> /\ IsDigit(Head(s))
    THEN ReadDigits(Tail(s), 10 * acc + DigitVal(Head(s)))
    ELSE acc

\* parseInt(v): leading blanks, an optional sign, then decimal digits up to the
\* first other character; NaN when there is no digit
parseInt(v) ==
    LET s0 == SkipSpaces(StringOf(v))
        neg == s0 # <<>> /\ Head(s0) = "-"
        s1 == IF s0 # <<>> /\ Head(s0) \in {"-", "+"} THEN Tail(s0) ELSE s0
    IN  IF s1 # <<>> /\ IsDigit(Head(s1))
        THEN Num(IF neg THEN -ReadDigits(s1, 0) ELSE ReadDigits(s1, 0))
        ELSE NaN

\* comparisons and Math.abs on numbers; every comparison with NaN is false
Geq(a, b) == a.t = "num" /\ b.t = "num" /\ a.n >= b.n
Leq(a, b) == a.t = "num" /\ b.t = "num" /\ a.n <= b.n
StrictEq(a, b) == a.t = "num" /\ b.t = "num" /\ a.n = b.n
Abs(n) == IF n < 0 THEN -n ELSE n
Min(a, b) == IF a < b THEN a ELSE b
AbsDiff(a, b) == IF a.t = "num" /\ b.t = "num" THEN Num(Abs(a.n - b.n)) ELSE NaN

(***************************************************************************)
(* PortValidationRule rows and the lookup of validatePorte.                *)
(***************************************************************************)
RuleCodes == {"K1"}
NoRule == [exists |-> FALSE, isActive |-> FALSE,
           minimumPort |-> 0, maximumPort |-> 0, recommendedPort |-> 0]
RuleRows ==
    {NoRule} \cup
    [exists : {TRUE}, isActive : BOOLEAN,
     minimumPort : 0..MaxPort, maximumPort : 0..MaxPort, recommendedPort : 0..MaxPort]

\* prisma.portValidationRule.findFirst({where: {procedureCode, isActive: true}})
HasActiveRule(table, code) ==
    code \in DOMAIN table /\ table[code].exists /\ table[code].isActive

NoVerdict == [isValid |-> FALSE, reportedPorte |-> Absent, expectedPorte |-> Absent,
              severity |-> "", message |-> ""]

\* Severity with the HIGH threshold taken one step too low
Severity_HighFromOne(isValid, reportedPorteNum, expectedPorte) ==
    IF isValid THEN "INFO"
    ELSE LET diff == AbsDiff(reportedPorteNum, expectedPorte)
         IN  IF Geq(diff, Num(1)) THEN "HIGH" ELSE "LOW"

\* the severity computed for a verdict of a rule
Severity(isValid, reportedPorteNum, expectedPorte) ==
    IF isValid THEN "INFO"
    ELSE LET diff == AbsDiff(reportedPorteNum, expectedPorte)
         IN  IF Geq(diff, Num(2)) THEN "HIGH"
             ELSE IF StrictEq(diff, Num(1)) THEN "MEDIUM"
             ELSE "LOW"

\* ProcedureController.validatePorte: the response for a request body
validatePorte(table, procedureCode, reportedPorte) ==
    IF procedureCode = "" \/ ~Truthy(reportedPorte)
    THEN [status |-> 400, lookup |-> FALSE, body |-> NoVerdict]
    ELSE IF ~HasActiveRule(table, procedureCode)
    THEN [status |-> 200, lookup |-> TRUE,
          body |-> [isValid |-> TRUE, reportedPorte |-> reportedPorte,
                    expectedPorte |-> reportedPorte, severity |-> "INFO",
                    message |-> "No validation rule found for this procedure"]]
    ELSE LET rule == table[procedureCode]
             reportedPorteNum == parseInt(reportedPorte)
             isValid == /\ Geq(reportedPorteNum, Num(rule.minimumPort))
                        /\ Leq(reportedPorteNum, Num(rule.maximumPort))
             expectedPorte == Num(rule.recommendedPort)
         IN  [status |-> 200, lookup |-> TRUE,
              body |-> [isValid |-> isValid, reportedPorte |-> reportedPorteNum,
                        expectedPorte |-> expectedPorte,
                        severity |-> Severity(isValid, reportedPorteNum, expectedPorte),
                        message |-> IF isValid THEN "Porte is within acceptable range"
                                    ELSE "Porte divergence detected"]]

(***************************************************************************)
(* PriceModel and AuditPolicy of SurgeryService.  Amounts are integers of  *)
(* thousandths of the currency unit, so that a JavaScript number with      *)
(* three decimals and a DECIMAL(10,2) column are both representable.       *)
(***************************************************************************)
Mills == 1000

Complexities == {"PORTE_1", "PORTE_2", "PORTE_3", "PORTE_4", "PORTE_ESPECIAL"}
\* values of enum ProcedureComplexity that are no SurgeryComplexity
LegacyComplexities == {"LOW", "MEDIUM"}

baseRates ==
    [c \in Complexities |->
        CASE c = "PORTE_1" -> 500
          [] c = "PORTE_2" -> 1500
          [] c = "PORTE_3" -> 3000
          [] c = "PORTE_4" -> 5000
          [] c = "PORTE_ESPECIAL" -> 8000]

\* Math.round(num / den) for den > 0: the nearest integer, halves upwards
MathRound(num, den) == (2 * num + den) \div (2 * den)

\* the multiplier without its floor of one hour
DurationMultiplier60_Unfloored(duration) == duration

\* Math.max(1, duration / 60) as a fraction over 60
DurationMultiplier60(duration) == IF duration > 60 THEN duration ELSE 60

\* SurgeryService.calculateBasePrice, in whole currency units.  baseRate * d / 60
\* is never within 1/6 of a half for an integer d, so the double arithmetic of
\* the source rounds as the exact quotient does.
calculateBasePrice(complexity, duration) ==
    LET baseRate == IF complexity \in DOMAIN baseRates THEN baseRates[complexity] ELSE 1000
    IN  MathRound(baseRate * DurationMultiplier60(duration), 60)

\* the audit policy with PORTE_3 left out
requiresAudit_FromPorte4(complexity) == complexity \in {"PORTE_4", "PORTE_ESPECIAL"}

\* SurgeryService.requiresAudit
requiresAudit(complexity) ==
    complexity \in {"PORTE_3", "PORTE_4", "PORTE_ESPECIAL"}

(***************************************************************************)
(* Dates.  A Date is a whole number of minutes since 2023-01-01T00:00, in  *)
(* the time zone of the server (no daylight saving); 23:59:59.999 of a day *)
(* is its minute 23:59, every timestamp of the model being a whole minute. *)
(***************************************************************************)
EpochYear == 2023
HoursPerDay == 24
MinutesPerHour == 60
MinutesPerDay == HoursPerDay * MinutesPerHour

IsLeapYear(y) == (y % 4 = 0 /\ y % 100 # 0) \/ y % 400 = 0

DaysInMonth(y, m) ==
    CASE m = 2 -> IF IsLeapYear(y) THEN 29 ELSE 28
      [] m \in {4, 6, 9, 11} -> 30
      [] OTHER -> 31

RECURSIVE DaysBeforeYear(_)
DaysBeforeYear(y) ==
    IF y <= EpochYear THEN 0
    ELSE DaysBeforeYear(y - 1) + (IF IsLeapYear(y - 1) THEN 366 ELSE 365)

RECURSIVE DaysBeforeMonth(_, _)
DaysBeforeMonth(y, m) ==
    IF m <= 1 THEN 0 ELSE DaysBeforeMonth(y, m - 1) + DaysInMonth(y, m - 1)

\* the day number of year y, month m (1..12 after it is carried into the year:
\* month 0 is December of y - 1), day d, where d may run past the end of the month
\* as it does in Date.setMonth and Date.setFullYear
DayNumber(y, m, d) ==
    LET yy == IF m < 1 THEN y - 1 ELSE y
        mm == IF m < 1 THEN m + 12 ELSE m
    IN  DaysBeforeYear(yy) + DaysBeforeMonth(yy, mm) + (d - 1)

\* getFullYear / getMonth (1..12 here) / getDate of a day number
CivilOf(day) ==
    LET y == CHOOSE yy \in EpochYear..(EpochYear + 3) :
                 DaysBeforeYear(yy) <= day /\ day < DaysBeforeYear(yy + 1)
        dayOfYear == day - DaysBeforeYear(y)
        m == CHOOSE mm \in 1..12 :
                 /\ DaysBeforeMonth(y, mm) <= dayOfYear
                 /\ dayOfYear < DaysBeforeMonth(y, mm) + DaysInMonth(y, mm)
    IN  [y |-> y, m |-> m, d |-> dayOfYear - DaysBeforeMonth(y, m) + 1]

\* a Date is a whole number of minutes since 1 January of EpochYear, 00:00
DateOf(y, m, d, h) == (DayNumber(y, m, d) * HoursPerDay + h) * MinutesPerHour
DayOf(date) == date \div MinutesPerDay

Periods == {"day", "week", "month", "quarter", "year"}

\* the window taken from the clock instead of the date it is given
getPeriodDates_FromClock(period, date) ==
    [threw |-> period \notin Periods,
     startDate |-> (DayOf(now) - (IF period = "day" THEN 0 ELSE 7)) * MinutesPerDay,
     endDate |-> DayOf(now) * MinutesPerDay + (MinutesPerDay - 1)]

\* the default case falling through to the window of a day
getPeriodDates_Lenient(period, date) ==
    [threw |-> FALSE,
     startDate |-> DayOf(date) * MinutesPerDay,
     endDate |-> DayOf(date) * MinutesPerDay + (MinutesPerDay - 1)]

\* AnalyticsService.getPeriodDates: the window of a period ending on the day of
\* date; an unknown period throws
getPeriodDates(period, date) ==
    LET day == DayOf(date)
        c == CivilOf(day)
        startDay == CASE period = "day" -> day
                      [] period = "week" -> day - 7
                      [] period = "month" -> DayNumber(c.y, c.m - 1, c.d)
                      [] period = "quarter" -> DayNumber(c.y, c.m - 3, c.d)
                      [] period = "year" -> DayNumber(c.y - 1, c.m, c.d)
                      [] OTHER -> day
    IN  [threw |-> period \notin Periods,
         startDate |-> startDay * MinutesPerDay,
         endDate |-> day * MinutesPerDay + (MinutesPerDay - 1)]

\* new Date(s) for the date strings of the requests
ParseDate(s) ==
    CASE s = "2025-01-10" -> DateOf(2025, 1, 10, 0)
      [] s = "2025-01-11" -> DateOf(2025, 1, 11, 0)
      [] s = "2025-03-31" -> DateOf(2025, 3, 31, 0)

\* the instant the service starts at
StartOfService == DateOf(2025, 1, 10, 9)

(***************************************************************************)
(* Storage rows.  A nullable column holds <<>> (NULL) or <<v>>.            *)
(***************************************************************************)
Statuses == {"SCHEDULED", "CONFIRMED", "IN_PROGRESS", "COMPLETED", "CANCELLED", "POSTPONED"}

\* a number written to column basePrice DECIMAL(10,2): hundredths, the nearest,
\* halves away from zero
ToDecimal2(mills) ==
    IF mills >= 0 THEN (mills + 5) \div 10 ELSE -((5 - mills) \div 10)

\* parseFloat(decimal.toString()): the number a DECIMAL(10,2) value reads as
parseFloatDecimal(cents) == cents * 10

NoRow == [code |-> "", complexity |-> "", estimatedDuration |-> <<>>, basePrice |-> <<>>,
          status |-> "", patientId |-> "", requiresAuthorization |-> FALSE,
          performedDate |-> <<>>, deletedAt |-> <<>>,
          hospitalId |-> "", category |-> "", createdAt |-> 0, scheduledDate |-> <<>>,
          duration |-> <<>>, name |-> "", complications |-> <<>>, tags |-> {}]

NoSurgery == [id |-> 0, patientId |-> "", complexity |-> "", estimatedDuration |-> 0,
              basePrice |-> 0, status |-> "", requiresAuthorization |-> FALSE,
              authorizationStatus |-> "", auditStatus |-> ""]

\* the mapping with auditStatus as createSurgery sets it
mapProcedureToSurgery_AuditPending(id, procedure) ==
    [id |-> id,
     patientId |-> procedure.patientId,
     complexity |-> procedure.complexity,
     estimatedDuration |-> IF procedure.estimatedDuration = <<>> THEN 0
                           ELSE procedure.estimatedDuration[1],
     basePrice |-> IF procedure.basePrice = <<>> THEN 0
                   ELSE parseFloatDecimal(procedure.basePrice[1]),
     status |-> procedure.status,
     requiresAuthorization |-> procedure.requiresAuthorization,
     authorizationStatus |-> IF procedure.requiresAuthorization THEN "PENDING"
                             ELSE "NOT_REQUIRED",
     auditStatus |-> "PENDING_AUDIT"]

\* SurgeryService.mapProcedureToSurgery
mapProcedureToSurgery(id, procedure) ==
    [id |-> id,
     patientId |-> procedure.patientId,
     complexity |-> procedure.complexity,
     estimatedDuration |-> IF procedure.estimatedDuration = <<>> THEN 0
                           ELSE procedure.estimatedDuration[1],
     basePrice |-> IF procedure.basePrice = <<>> THEN 0
                   ELSE parseFloatDecimal(procedure.basePrice[1]),
     status |-> procedure.status,
     requiresAuthorization |-> procedure.requiresAuthorization,
     authorizationStatus |-> IF procedure.requiresAuthorization THEN "PENDING"
                             ELSE "NOT_REQUIRED",
     auditStatus |-> IF requiresAudit(procedure.complexity) THEN "PENDING_AUDIT"
                     ELSE "NOT_REQUIRED"]

(***************************************************************************)
(* The event bus.  A publish call is recorded with its outcome: "sent",    *)
(* "skipped" (the bus is not connected: publishEvent returns) or "failed"  *)
(* (sendMessages threw and publishEvent rethrows).                         *)
(***************************************************************************)
PublishOutcomes == IF busConnected THEN {"sent", "failed"} ELSE {"skipped"}

Event(type, surgery, priority, outcome) ==
    [type |-> type, procedureId |-> surgery.id, priority |-> priority,
     outcome |-> outcome]

\* eventBusService.publishSurgeryCreated / publishPorteConfirmed /
\* publishSurgeryStatusUpdated: one publish of the named event
publishSurgeryCreated(surgery, outcome) == Event("ProcedureCreated", surgery, "", outcome)
publishPorteConfirmed(surgery, outcome) == Event("PorteConfirmed", surgery, "", outcome)
publishSurgeryStatusUpdated(surgery, outcome) ==
    Event("SurgeryStatusUpdated", surgery, "", outcome)

\* the priority createAuditRequest gives the audit request
AuditPriority(complexity) == IF complexity = "PORTE_ESPECIAL" THEN "URGENT" ELSE "HIGH"

\* SurgeryService.createAuditRequest: the publish it makes
createAuditRequest(surgery, outcome) ==
    Event("AuditRequested", surgery, AuditPriority(surgery.complexity), outcome)

(***************************************************************************)
(* Requests.  A client's call is at pc "idle", at the await it is about to *)
(* resume from, or "done" with its result.                                 *)
(***************************************************************************)
Clients == {"w1", "w2"}
PatientIds == {"p1", "p2"}
ProcedureCodes == {"SURG-1"}
ProcedureIds == 1..(Cardinality(ProcedureCodes) + 1)

\* a request: the fields of the path and the body that the handlers read; "" and
\* 0 stand for a field the body does not carry, <<>> for no porteValidation object
NoArgs == [id |-> 0, patientId |-> "", procedureCode |-> "", complexity |-> "",
           estimatedDuration |-> 0, basePrice |-> 0, requiresAuthorization |-> FALSE,
           status |-> "", performedDate |-> "", executionDate |-> "",
           category |-> "", scheduledDate |-> "", duration |-> 0,
           reportedPorte |-> 0, validatedPorte |-> 0, porteValidation |-> <<>>,
           procedureName |-> "", name |-> "", complications |-> "", tags |-> {}]

CreateRequests ==
    {[NoArgs EXCEPT !.patientId = pid, !.procedureCode = code, !.complexity = r[1],
                    !.category = "CARDIAC_SURGERY",
                    !.estimatedDuration = r[2], !.requiresAuthorization = r[3]] :
        pid \in PatientIds, code \in ProcedureCodes,
        r \in {<<"PORTE_2", 45, FALSE>>, <<"PORTE_3", -30, TRUE>>,
               <<"PORTE_ESPECIAL", 90, FALSE>>}}

\* confirmations: basePrice in thousandths (-1.000, 10.005, 2500.000)
ConfirmRequests ==
    {[NoArgs EXCEPT !.id = id, !.complexity = r[1], !.estimatedDuration = r[2],
                    !.basePrice = r[3]] :
        id \in ProcedureIds,
        r \in {<<"PORTE_1", 0, -1000>>, <<"PORTE_4", 120, 10005>>,
               <<"PORTE_3", 45, 2500000>>}}

StatusRequests ==
    {[NoArgs EXCEPT !.id = id, !.status = st] : id \in ProcedureIds, st \in Statuses}

GetRequests == {[NoArgs EXCEPT !.id = id] : id \in ProcedureIds}

NoResult == [ok |-> FALSE, error |-> "", data |-> NoSurgery]
Success(surgery) == [ok |-> TRUE, error |-> "", data |-> surgery]
Failure(message) == [ok |-> FALSE, error |-> message, data |-> NoSurgery]

NoSummary == [totalPending |-> 0, pendingAuthorization |-> 0, pendingAudit |-> 0,
              scheduledToday |-> 0, scheduledThisWeek |-> 0, recentActivity |-> <<>>]

\* a call in flight; replaced is the row its update overwrote, kept for the properties
IdleCall == [pc |-> "idle", op |-> "", a |-> NoArgs, id |-> 0, old |-> NoRow,
             surgery |-> NoSurgery, res |-> NoResult, summary |-> NoSummary,
             replaced |-> NoRow]

IdleHttp == [procedureCode |-> "", reportedPorte |-> Absent,
             res |-> [status |-> 0, lookup |-> FALSE, body |-> NoVerdict]]
IdleProbe == [fn |-> "none", complexity |-> "", duration |-> 0, price |-> 0,
              audit |-> FALSE]

NoWrite == [by |-> "", a |-> NoArgs, returned |-> FALSE]

LifecycleAtRest ==
    /\ patients = {"p1"}
    /\ procedures = <<>>
    /\ auditLog = <<>>
    /\ events = <<>>
    /\ busConnected = TRUE
    /\ portValidations = <<>>
    /\ now = StartOfService
    /\ calls = [k \in Clients |-> IdleCall]
    /\ lastWrite = <<>>
    /\ ncalls = 0

lifecycleVars == <<patients, procedures, auditLog, events, busConnected,
                   portValidations, now, calls, lastWrite, ncalls>>

Exists(id) == id \in 1..Len(procedures)
CodeTaken(code) == \E i \in 1..Len(procedures) : procedures[i].code = code

Finish(k, result) == [calls[k] EXCEPT !.pc = "done", !.res = result]

(***************************************************************************)
(* SurgeryService.createSurgery, one action per await.                     *)
(***************************************************************************)
\* the row prisma.procedure.create writes
CreatedRow(data) ==
    [code |-> data.procedureCode,
     complexity |-> data.complexity,
     estimatedDuration |-> <<data.estimatedDuration>>,
     basePrice |-> <<ToDecimal2(calculateBasePrice(data.complexity, data.estimatedDuration)
                                * Mills)>>,
     status |-> "SCHEDULED",
     patientId |-> data.patientId,
     requiresAuthorization |-> data.requiresAuthorization,
     performedDate |-> <<>>,
     deletedAt |-> <<>>,
     hospitalId |-> "",
     category |-> data.category,
     createdAt |-> now,
     scheduledDate |-> <<>>,
     duration |-> <<>>,
     name |-> data.procedureName,
     complications |-> <<>>,
     tags |-> {"surgery", data.complexity, data.category}]

\* the SurgeryProcedure with auditStatus derived from the audit policy
CreatedSurgery_AuditByPolicy(id, data) ==
    [id |-> id,
     patientId |-> data.patientId,
     complexity |-> data.complexity,
     estimatedDuration |-> data.estimatedDuration,
     basePrice |-> calculateBasePrice(data.complexity, data.estimatedDuration) * Mills,
     status |-> "SCHEDULED",
     requiresAuthorization |-> data.requiresAuthorization,
     authorizationStatus |-> IF data.requiresAuthorization THEN "PENDING"
                             ELSE "NOT_REQUIRED",
     auditStatus |-> IF requiresAudit(data.complexity) THEN "PENDING_AUDIT"
                     ELSE "NOT_REQUIRED"]

\* the SurgeryProcedure createSurgery builds from its request
CreatedSurgery(id, data) ==
    [id |-> id,
     patientId |-> data.patientId,
     complexity |-> data.complexity,
     estimatedDuration |-> data.estimatedDuration,
     basePrice |-> calculateBasePrice(data.complexity, data.estimatedDuration) * Mills,
     status |-> "SCHEDULED",
     requiresAuthorization |-> data.requiresAuthorization,
     authorizationStatus |-> IF data.requiresAuthorization THEN "PENDING"
                             ELSE "NOT_REQUIRED",
     auditStatus |-> "PENDING_AUDIT"]

\* createSurgery without the check of the patient row
CreateSurgeryFindPatient_Unchecked(k, data) ==
    /\ calls[k].pc = "idle"
    /\ ncalls < MaxCalls
    /\ ncalls' = ncalls + 1
    /\ calls' = [calls EXCEPT ![k] =
          [IdleCall EXCEPT !.pc = "cs_create", !.op = "createSurgery", !.a = data]]
    /\ UNCHANGED <<rules, http, probe, stats, metrics, now, portValidations, patients, procedures, auditLog, events,
                   busConnected, lastWrite>>

\* prisma.patient.findUnique resolves
CreateSurgeryFindPatient(k, data) ==
    /\ calls[k].pc = "idle"
    /\ ncalls < MaxCalls
    /\ ncalls' = ncalls + 1
    /\ calls' = [calls EXCEPT ![k] =
          IF data.patientId \in patients
          THEN [IdleCall EXCEPT !.pc = "cs_create", !.op = "createSurgery", !.a = data]
          ELSE [IdleCall EXCEPT !.pc = "done", !.op = "createSurgery", !.a = data,
                                !.res = Failure("Patient not found")]]
    /\ UNCHANGED <<rules, http, probe, stats, metrics, now, portValidations, patients, procedures, auditLog, events,
                   busConnected, lastWrite>>

\* prisma.procedure.create resolves: the row is written, or the unique index on
\* procedures.code rejects it
CreateSurgeryPersist(k) ==
    /\ calls[k].pc = "cs_create"
    /\ IF CodeTaken(calls[k].a.procedureCode)
       THEN /\ calls' = [calls EXCEPT ![k] = Finish(k, Failure("Unique constraint failed"))]
            /\ UNCHANGED <<procedures, lastWrite>>
       ELSE /\ procedures' = Append(procedures, CreatedRow(calls[k].a))
            /\ lastWrite' = Append(lastWrite, NoWrite)
            /\ calls' = [calls EXCEPT ![k] =
                  [@ EXCEPT !.pc = "cs_publish", !.id = Len(procedures) + 1,
                            !.surgery = CreatedSurgery(Len(procedures) + 1, calls[k].a)]]
    /\ UNCHANGED <<rules, http, probe, stats, metrics, now, portValidations, patients, auditLog, events, busConnected, ncalls>>

\* createSurgery requesting an audit whatever the complexity
CreateSurgeryPublish_AuditAlways(k, outcome) ==
    /\ calls[k].pc = "cs_publish"
    /\ outcome \in PublishOutcomes
    /\ events' = Append(events, publishSurgeryCreated(calls[k].surgery, outcome))
    /\ calls' = [calls EXCEPT ![k] =
          IF outcome = "failed" THEN Finish(k, Failure("publish failed"))
          ELSE [@ EXCEPT !.pc = "cs_audit"]]
    /\ UNCHANGED <<rules, http, probe, stats, metrics, now, portValidations, patients, procedures, auditLog, busConnected,
                   lastWrite, ncalls>>

\* eventBusService.publishSurgeryCreated resolves or rejects
CreateSurgeryPublish(k, outcome) ==
    /\ calls[k].pc = "cs_publish"
    /\ outcome \in PublishOutcomes
    /\ events' = Append(events, publishSurgeryCreated(calls[k].surgery, outcome))
    /\ calls' = [calls EXCEPT ![k] =
          IF outcome = "failed" THEN Finish(k, Failure("publish failed"))
          ELSE IF requiresAudit(calls[k].a.complexity) THEN [@ EXCEPT !.pc = "cs_audit"]
          ELSE Finish(k, Success(calls[k].surgery))]
    /\ UNCHANGED <<rules, http, probe, stats, metrics, now, portValidations, patients, procedures, auditLog, busConnected,
                   lastWrite, ncalls>>

\* createAuditRequest resolves; it catches the error of its publish
CreateSurgeryAudit(k, outcome) ==
    /\ calls[k].pc = "cs_audit"
    /\ outcome \in PublishOutcomes
    /\ events' = Append(events, createAuditRequest(calls[k].surgery, outcome))
    /\ calls' = [calls EXCEPT ![k] = Finish(k, Success(calls[k].surgery))]
    /\ UNCHANGED <<rules, http, probe, stats, metrics, now, portValidations, patients, procedures, auditLog, busConnected,
                   lastWrite, ncalls>>

(***************************************************************************)
(* SurgeryService.getSurgeryById.                                          *)
(***************************************************************************)
GetSurgeryById(k, a) ==
    /\ calls[k].pc = "idle"
    /\ ncalls < MaxCalls
    /\ ncalls' = ncalls + 1
    /\ calls' = [calls EXCEPT ![k] =
          [IdleCall EXCEPT !.pc = "done", !.op = "getSurgeryById", !.a = a, !.id = a.id,
              !.res = IF Exists(a.id)
                      THEN Success(mapProcedureToSurgery(a.id, procedures[a.id]))
                      ELSE Failure("Surgery procedure not found")]]
    /\ UNCHANGED <<rules, http, probe, stats, metrics, now, portValidations, patients, procedures, auditLog, events,
                   busConnected, lastWrite>>

(***************************************************************************)
(* SurgeryService.getPendingSurgeries.                                     *)
(***************************************************************************)
RecentLimit == 10
DaysPerWeek == 7

\* findMany({where: {tags: {has: 'surgery'}, status: {in: ['SCHEDULED',
\* 'CONFIRMED']}}, orderBy: {createdAt: 'asc'}}): the ids found, in table order,
\* which is the order of creation
PendingIds(table) ==
    LET Found(i) == /\ "surgery" \in table[i].tags
                    /\ table[i].status \in {"SCHEDULED", "CONFIRMED"}
    IN  SelectSeq([i \in 1..Len(table) |-> i], Found)

\* the number of ids of a sequence that satisfy Test
CountIf(ids, Test(_)) == Len(SelectSeq(ids, Test))

\* the summary getPendingSurgeries computes at the instant clock; the scheduled
\* date of a procedure is taken as one day after its createdAt
PendingSurgerySummary(table, clock) ==
    LET ids == PendingIds(table)
        today == DayOf(clock) * MinutesPerDay
        nextWeek == today + DaysPerWeek * MinutesPerDay
        scheduledDate == [i \in 1..Len(table) |-> table[i].createdAt + MinutesPerDay]
        RequiresAuthorization(i) == table[i].requiresAuthorization
        RequiresAudit(i) == requiresAudit(table[i].complexity)
        Today(i) == scheduledDate[i] >= today /\ scheduledDate[i] < today + MinutesPerDay
        ThisWeek(i) == scheduledDate[i] >= today /\ scheduledDate[i] < nextWeek
    IN  [totalPending |-> Len(ids),
         pendingAuthorization |-> CountIf(ids, RequiresAuthorization),
         pendingAudit |-> CountIf(ids, RequiresAudit),
         scheduledToday |-> CountIf(ids, Today),
         scheduledThisWeek |-> CountIf(ids, ThisWeek),
         recentActivity |->
             [n \in 1..Min(RecentLimit, Len(ids)) |->
                 mapProcedureToSurgery(ids[n], table[ids[n]])]]

GetPendingSurgeries(k) ==
    /\ calls[k].pc = "idle"
    /\ ncalls < MaxCalls
    /\ ncalls' = ncalls + 1
    /\ calls' = [calls EXCEPT ![k] =
          [IdleCall EXCEPT !.pc = "done", !.op = "getPendingSurgeries",
                           !.res = Success(NoSurgery),
                           !.summary = PendingSurgerySummary(procedures, now)]]
    /\ UNCHANGED <<rules, http, probe, stats, metrics, now, portValidations, patients,
                   procedures, auditLog, events, busConnected, lastWrite>>

(***************************************************************************)
(* SurgeryService.confirmPorte, one action per await.                      *)
(***************************************************************************)
NoValues == [complexity |-> "", estimatedDuration |-> <<>>, basePrice |-> <<>>,
             status |-> "", action |-> ""]

AuditEntry(id, oldValues, newValues) ==
    [action |-> "UPDATE", entity |-> "PROCEDURE", entityId |-> id, procedureId |-> id,
     oldValues |-> oldValues, newValues |-> newValues]

\* prisma.procedure.findUnique resolves
ConfirmPorteFind(k, confirmation) ==
    /\ calls[k].pc = "idle"
    /\ ncalls < MaxCalls
    /\ ncalls' = ncalls + 1
    /\ calls' = [calls EXCEPT ![k] =
          IF Exists(confirmation.id)
          THEN [IdleCall EXCEPT !.pc = "cp_update", !.op = "confirmPorte",
                                !.a = confirmation, !.id = confirmation.id,
                                !.old = procedures[confirmation.id]]
          ELSE [IdleCall EXCEPT !.pc = "done", !.op = "confirmPorte", !.a = confirmation,
                                !.id = confirmation.id,
                                !.res = Failure("Surgery procedure not found")]]
    /\ UNCHANGED <<rules, http, probe, stats, metrics, now, portValidations, patients, procedures, auditLog, events,
                   busConnected, lastWrite>>

\* the row left when the price is recomputed instead of taken from the confirmation
ConfirmedRow_Recomputed(row, confirmation) ==
    [row EXCEPT !.complexity = confirmation.complexity,
                !.estimatedDuration = <<confirmation.estimatedDuration>>,
                !.basePrice = <<ToDecimal2(calculateBasePrice(confirmation.complexity,
                                               confirmation.estimatedDuration) * Mills)>>]

\* a confirmation that also puts the procedure back to SCHEDULED
ConfirmedRow_Rescheduled(row, confirmation) ==
    [row EXCEPT !.complexity = confirmation.complexity,
                !.estimatedDuration = <<confirmation.estimatedDuration>>,
                !.basePrice = <<ToDecimal2(confirmation.basePrice)>>,
                !.status = "SCHEDULED"]

\* the row prisma.procedure.update leaves for a confirmation
ConfirmedRow(row, confirmation) ==
    [row EXCEPT !.complexity = confirmation.complexity,
                !.estimatedDuration = <<confirmation.estimatedDuration>>,
                !.basePrice = <<ToDecimal2(confirmation.basePrice)>>]

\* prisma.procedure.update resolves
ConfirmPorteUpdate(k) ==
    /\ calls[k].pc = "cp_update"
    /\ LET id == calls[k].id
           updatedProcedure == ConfirmedRow(procedures[id], calls[k].a)
       IN  /\ procedures' = [procedures EXCEPT ![id] = updatedProcedure]
           /\ lastWrite' = [lastWrite EXCEPT ![id] =
                  [by |-> k, a |-> calls[k].a, returned |-> FALSE]]
           /\ calls' = [calls EXCEPT ![k] =
                  [@ EXCEPT !.pc = "cp_audit", !.replaced = procedures[id],
                            !.surgery = mapProcedureToSurgery(id, updatedProcedure)]]
    /\ UNCHANGED <<rules, http, probe, stats, metrics, now, portValidations, patients, auditLog, events, busConnected, ncalls>>

\* the audit_logs row of a confirmation
ConfirmAuditEntry(id, procedure, confirmation) ==
    AuditEntry(id,
        [NoValues EXCEPT !.complexity = procedure.complexity,
                         !.estimatedDuration = procedure.estimatedDuration,
                         !.basePrice = procedure.basePrice],
        [NoValues EXCEPT !.complexity = confirmation.complexity,
                         !.estimatedDuration = <<confirmation.estimatedDuration>>,
                         !.basePrice = <<confirmation.basePrice>>,
                         !.action = "PORTE_CONFIRMED"])

\* prisma.auditLog.create resolves or rejects (userId is NOT NULL and confirmedBy
\* is passed on unchecked)
ConfirmPorteAudit(k, rejected) ==
    /\ calls[k].pc = "cp_audit"
    /\ IF rejected
       THEN /\ calls' = [calls EXCEPT ![k] = Finish(k, Failure("audit log failed"))]
            /\ UNCHANGED auditLog
       ELSE /\ auditLog' = Append(auditLog,
                  ConfirmAuditEntry(calls[k].id, calls[k].old, calls[k].a))
            /\ calls' = [calls EXCEPT ![k] = [@ EXCEPT !.pc = "cp_publish"]]
    /\ UNCHANGED <<rules, http, probe, stats, metrics, now, portValidations, patients, procedures, events, busConnected,
                   lastWrite, ncalls>>

\* the call returns to its caller: noted on the write it made, if still the latest
Returned(k, ok) ==
    [i \in 1..Len(lastWrite) |->
        IF ok /\ i = calls[k].id /\ lastWrite[i].by = k
        THEN [lastWrite[i] EXCEPT !.returned = TRUE]
        ELSE lastWrite[i]]

\* eventBusService.publishPorteConfirmed resolves or rejects
ConfirmPortePublish(k, outcome) ==
    /\ calls[k].pc = "cp_publish"
    /\ outcome \in PublishOutcomes
    /\ events' = Append(events, publishPorteConfirmed(calls[k].surgery, outcome))
    /\ calls' = [calls EXCEPT ![k] =
          IF outcome = "failed" THEN Finish(k, Failure("publish failed"))
          ELSE Finish(k, Success(calls[k].surgery))]
    /\ lastWrite' = Returned(k, outcome # "failed")
    /\ UNCHANGED <<rules, http, probe, stats, metrics, now, portValidations, patients, procedures, auditLog, busConnected, ncalls>>

(***************************************************************************)
(* SurgeryService.updateSurgeryStatus, one action per await.               *)
(***************************************************************************)
\* updateSurgeryStatus writing the audit row before it looks the procedure up
UpdateSurgeryStatusFind_AuditFirst(k, a) ==
    /\ calls[k].pc = "idle"
    /\ ncalls < MaxCalls
    /\ ncalls' = ncalls + 1
    /\ auditLog' = Append(auditLog, AuditEntry(a.id, NoValues,
                                               [NoValues EXCEPT !.status = a.status]))
    /\ calls' = [calls EXCEPT ![k] =
          IF Exists(a.id)
          THEN [IdleCall EXCEPT !.pc = "us_update", !.op = "updateSurgeryStatus",
                                !.a = a, !.id = a.id, !.old = procedures[a.id]]
          ELSE [IdleCall EXCEPT !.pc = "done", !.op = "updateSurgeryStatus", !.a = a,
                                !.id = a.id,
                                !.res = Failure("Surgery procedure not found")]]
    /\ UNCHANGED <<rules, http, probe, stats, metrics, now, portValidations, patients, procedures, events,
                   busConnected, lastWrite>>

\* prisma.procedure.findUnique resolves
UpdateSurgeryStatusFind(k, a) ==
    /\ calls[k].pc = "idle"
    /\ ncalls < MaxCalls
    /\ ncalls' = ncalls + 1
    /\ calls' = [calls EXCEPT ![k] =
          IF Exists(a.id)
          THEN [IdleCall EXCEPT !.pc = "us_update", !.op = "updateSurgeryStatus",
                                !.a = a, !.id = a.id, !.old = procedures[a.id]]
          ELSE [IdleCall EXCEPT !.pc = "done", !.op = "updateSurgeryStatus", !.a = a,
                                !.id = a.id,
                                !.res = Failure("Surgery procedure not found")]]
    /\ UNCHANGED <<rules, http, probe, stats, metrics, now, portValidations, patients, procedures, auditLog, events,
                   busConnected, lastWrite>>

UpdateSurgeryStatusUpdate(k) ==
    /\ calls[k].pc = "us_update"
    /\ LET id == calls[k].id
           updatedProcedure == [procedures[id] EXCEPT !.status = calls[k].a.status]
       IN  /\ procedures' = [procedures EXCEPT ![id] = updatedProcedure]
           /\ calls' = [calls EXCEPT ![k] =
                  [@ EXCEPT !.pc = "us_audit", !.replaced = procedures[id],
                            !.surgery = mapProcedureToSurgery(id, updatedProcedure)]]
    /\ UNCHANGED <<rules, http, probe, stats, metrics, now, portValidations, patients, auditLog, events, busConnected,
                   lastWrite, ncalls>>

\* the audit row with the new status recorded as the old one too
StatusAuditEntry_NewAsOld(id, procedure, status) ==
    AuditEntry(id, [NoValues EXCEPT !.status = status],
                   [NoValues EXCEPT !.status = status])

\* the audit_logs row of a status update
StatusAuditEntry(id, procedure, status) ==
    AuditEntry(id, [NoValues EXCEPT !.status = procedure.status],
                   [NoValues EXCEPT !.status = status])

UpdateSurgeryStatusAudit(k, rejected) ==
    /\ calls[k].pc = "us_audit"
    /\ IF rejected
       THEN /\ calls' = [calls EXCEPT ![k] = Finish(k, Failure("audit log failed"))]
            /\ UNCHANGED auditLog
       ELSE /\ auditLog' = Append(auditLog,
                  StatusAuditEntry(calls[k].id, calls[k].old, calls[k].a.status))
            /\ calls' = [calls EXCEPT ![k] = [@ EXCEPT !.pc = "us_publish"]]
    /\ UNCHANGED <<rules, http, probe, stats, metrics, now, portValidations, patients, procedures, events, busConnected,
                   lastWrite, ncalls>>

UpdateSurgeryStatusPublish(k, outcome) ==
    /\ calls[k].pc = "us_publish"
    /\ outcome \in PublishOutcomes
    /\ events' = Append(events, publishSurgeryStatusUpdated(calls[k].surgery, outcome))
    /\ calls' = [calls EXCEPT ![k] =
          IF outcome = "failed" THEN Finish(k, Failure("publish failed"))
          ELSE Finish(k, Success(calls[k].surgery))]
    /\ UNCHANGED <<rules, http, probe, stats, metrics, now, portValidations, patients, procedures, auditLog, busConnected,
                   lastWrite, ncalls>>

(***************************************************************************)
(* ProcedureController.create / update / delete, one action per await.     *)
(***************************************************************************)
\* bodies of POST /procedures as the XML importer sends them
ImportRequests ==
    {[NoArgs EXCEPT !.procedureCode = "IMP-1", !.patientId = "p2",
                    !.executionDate = "2025-01-10", !.basePrice = 150000,
                    !.reportedPorte = 2, !.validatedPorte = 3,
                    !.porteValidation = <<[isValid |-> FALSE]>>],
     [NoArgs EXCEPT !.procedureCode = "IMP-1", !.patientId = "p1",
                    !.status = "COMPLETED", !.performedDate = "2025-01-10",
                    !.complexity = "PORTE_2", !.estimatedDuration = 60]}

\* bodies of PUT /procedures/:id
UpdateBodies ==
    {[NoArgs EXCEPT !.status = r[1], !.performedDate = r[2]] :
        r \in {<<"", "">>, <<"CONFIRMED", "">>, <<"", "2025-01-11">>,
               <<"COMPLETED", "2025-01-11">>}}

UpdateRequests == {[b EXCEPT !.id = id] : b \in UpdateBodies, id \in ProcedureIds}

DeleteRequests == {[NoArgs EXCEPT !.id = id] : id \in ProcedureIds}

\* prisma.procedure.findFirst({where: {id, deletedAt: null}})
ExistsLive(id) == Exists(id) /\ procedures[id].deletedAt = <<>>

\* a || b on strings
OrElse(a, b) == IF a # "" THEN a ELSE b

\* the row prisma.procedure.create writes for an imported procedure
ImportedRow(body) ==
    [code |-> body.procedureCode,
     complexity |-> OrElse(body.complexity, "MEDIUM"),
     estimatedDuration |-> IF body.estimatedDuration = 0 THEN <<>>
                           ELSE <<body.estimatedDuration>>,
     basePrice |-> IF body.basePrice = 0 THEN <<>> ELSE <<ToDecimal2(body.basePrice)>>,
     status |-> OrElse(body.status, "SCHEDULED"),
     patientId |-> body.patientId,
     requiresAuthorization |-> body.requiresAuthorization,
     performedDate |-> IF OrElse(body.performedDate, body.executionDate) # ""
                       THEN <<ParseDate(OrElse(body.performedDate, body.executionDate))>>
                       ELSE <<>>,
     deletedAt |-> <<>>,
     hospitalId |-> "",
     category |-> OrElse(body.category, "GENERAL_SURGERY"),
     createdAt |-> now,
     scheduledDate |-> IF OrElse(body.scheduledDate, body.executionDate) # ""
                       THEN <<ParseDate(OrElse(body.scheduledDate, body.executionDate))>>
                       ELSE <<>>,
     duration |-> IF body.duration = 0 THEN <<>> ELSE <<body.duration>>,
     name |-> OrElse(body.name, "Procedimento Importado"),
     complications |-> IF body.complications = "" THEN <<>> ELSE <<body.complications>>,
     tags |-> body.tags]

\* prisma.patient.findUnique resolves
ProcedureCreateFindPatient(k, body) ==
    /\ calls[k].pc = "idle"
    /\ ncalls < MaxCalls
    /\ ncalls' = ncalls + 1
    /\ calls' = [calls EXCEPT ![k] =
          [IdleCall EXCEPT !.op = "ProcedureController.create", !.a = body,
              !.pc = IF body.patientId # "" /\ body.patientId \notin patients
                     THEN "pc_patient" ELSE "pc_create"]]
    /\ UNCHANGED <<rules, http, probe, stats, metrics, now, portValidations, patients, procedures, auditLog,
                   events, busConnected, lastWrite>>

\* prisma.patient.create resolves: the basic patient row of an import
ProcedureCreatePatient(k) ==
    /\ calls[k].pc = "pc_patient"
    /\ patients' = patients \cup {calls[k].a.patientId}
    /\ calls' = [calls EXCEPT ![k] = [@ EXCEPT !.pc = "pc_create"]]
    /\ UNCHANGED <<rules, http, probe, stats, metrics, now, portValidations, procedures, auditLog, events,
                   busConnected, lastWrite, ncalls>>

\* the port validation is recorded iff the body carries one and a porte
RecordsPortValidation(body) ==
    body.porteValidation # <<>> /\ (body.reportedPorte # 0 \/ body.validatedPorte # 0)

\* prisma.procedure.create resolves, or rejects with P2002 (unique code)
ProcedureCreatePersist(k) ==
    /\ calls[k].pc = "pc_create"
    /\ IF CodeTaken(calls[k].a.procedureCode)
       THEN /\ calls' = [calls EXCEPT ![k] =
                  Finish(k, Failure("Procedure code already exists"))]
            /\ UNCHANGED <<procedures, lastWrite>>
       ELSE /\ procedures' = Append(procedures, ImportedRow(calls[k].a))
            /\ lastWrite' = Append(lastWrite, NoWrite)
            /\ calls' = [calls EXCEPT ![k] =
                  IF RecordsPortValidation(calls[k].a)
                  THEN [@ EXCEPT !.pc = "pc_port", !.id = Len(procedures) + 1]
                  ELSE [Finish(k, Success(NoSurgery)) EXCEPT !.id = Len(procedures) + 1]]
    /\ UNCHANGED <<rules, http, probe, stats, metrics, now, portValidations, patients, auditLog, events,
                   busConnected, ncalls>>

\* n || m on numbers
OrElseNum(n, m) == IF n # 0 THEN n ELSE m

\* the row with isValid as the request supplies it
PortValidationRow_AsSupplied(id, body) ==
    [procedureId |-> id,
     suggestedPort |-> OrElseNum(body.validatedPorte, OrElseNum(body.reportedPorte, 1)),
     actualPort |-> OrElseNum(body.reportedPorte, OrElseNum(body.validatedPorte, 1)),
     isValid |-> body.porteValidation[1].isValid,
     discrepancy |-> Abs(body.validatedPorte - body.reportedPorte)]

\* the row prisma.portValidation.create writes
PortValidationRow(id, body) ==
    [procedureId |-> id,
     suggestedPort |-> OrElseNum(body.validatedPorte, OrElseNum(body.reportedPorte, 1)),
     actualPort |-> OrElseNum(body.reportedPorte, OrElseNum(body.validatedPorte, 1)),
     isValid |-> body.porteValidation[1].isValid \/ TRUE,
     discrepancy |-> Abs(body.validatedPorte - body.reportedPorte)]

\* prisma.portValidation.create resolves or rejects; the handler logs a rejection
\* and answers 201 all the same
ProcedureCreatePortValidation(k, rejected) ==
    /\ calls[k].pc = "pc_port"
    /\ portValidations' = IF rejected THEN portValidations
                          ELSE Append(portValidations,
                                      PortValidationRow(calls[k].id, calls[k].a))
    /\ calls' = [calls EXCEPT ![k] = Finish(k, Success(NoSurgery))]
    /\ UNCHANGED <<rules, http, probe, stats, metrics, now, patients, procedures, auditLog, events,
                   busConnected, lastWrite, ncalls>>

\* an update that also takes complexity from the body, as create does
UpdatedRow_Reclassified(row, body) ==
    [row EXCEPT !.status = OrElse(body.status, row.status),
                !.performedDate = IF body.performedDate # ""
                                  THEN <<ParseDate(body.performedDate)>>
                                  ELSE row.performedDate,
                !.complexity = OrElse(body.complexity, "MEDIUM")]

\* the row prisma.procedure.update leaves for a body of PUT /procedures/:id
UpdatedRow(row, body) ==
    [row EXCEPT !.status = OrElse(body.status, row.status),
                !.performedDate = IF body.performedDate # ""
                                  THEN <<ParseDate(body.performedDate)>>
                                  ELSE row.performedDate]

\* prisma.procedure.findFirst resolves
ProcedureUpdateFind(k, body) ==
    /\ calls[k].pc = "idle"
    /\ ncalls < MaxCalls
    /\ ncalls' = ncalls + 1
    /\ calls' = [calls EXCEPT ![k] =
          IF ExistsLive(body.id)
          THEN [IdleCall EXCEPT !.pc = "pu_update", !.op = "ProcedureController.update",
                                !.a = body, !.id = body.id, !.old = procedures[body.id]]
          ELSE [IdleCall EXCEPT !.pc = "done", !.op = "ProcedureController.update",
                                !.a = body, !.id = body.id,
                                !.res = Failure("Procedure not found")]]
    /\ UNCHANGED <<rules, http, probe, stats, metrics, now, portValidations, patients, procedures, auditLog,
                   events, busConnected, lastWrite>>

\* prisma.procedure.update resolves
ProcedureUpdateUpdate(k) ==
    /\ calls[k].pc = "pu_update"
    /\ procedures' = [procedures EXCEPT ![calls[k].id] = UpdatedRow(@, calls[k].a)]
    /\ calls' = [calls EXCEPT ![k] = Finish(k, Success(NoSurgery))]
    /\ UNCHANGED <<rules, http, probe, stats, metrics, now, portValidations, patients, auditLog, events,
                   busConnected, lastWrite, ncalls>>

\* prisma.procedure.findFirst resolves
ProcedureDeleteFind(k, a) ==
    /\ calls[k].pc = "idle"
    /\ ncalls < MaxCalls
    /\ ncalls' = ncalls + 1
    /\ calls' = [calls EXCEPT ![k] =
          IF ExistsLive(a.id)
          THEN [IdleCall EXCEPT !.pc = "pd_update", !.op = "ProcedureController.delete",
                                !.a = a, !.id = a.id, !.old = procedures[a.id]]
          ELSE [IdleCall EXCEPT !.pc = "done", !.op = "ProcedureController.delete",
                                !.a = a, !.id = a.id,
                                !.res = Failure("Procedure not found")]]
    /\ UNCHANGED <<rules, http, probe, stats, metrics, now, portValidations, patients, procedures, auditLog,
                   events, busConnected, lastWrite>>

\* prisma.procedure.update resolves: the soft delete
ProcedureDeleteUpdate(k) ==
    /\ calls[k].pc = "pd_update"
    /\ procedures' = [procedures EXCEPT ![calls[k].id] = [@ EXCEPT !.deletedAt = <<now>>]]
    /\ calls' = [calls EXCEPT ![k] = Finish(k, Success(NoSurgery))]
    /\ UNCHANGED <<rules, http, probe, stats, metrics, now, portValidations, patients, auditLog, events,
                   busConnected, lastWrite, ncalls>>

\* the controller has sent the response; the client may call again
Respond(k) ==
    /\ calls[k].pc = "done"
    /\ calls' = [calls EXCEPT ![k] = IdleCall]
    /\ UNCHANGED <<rules, http, probe, stats, metrics, now, portValidations, patients, procedures, auditLog, events,
                   busConnected, lastWrite, ncalls>>

(***************************************************************************)
(* AnalyticsService.getProcedureStats, one action per query.  A quotient   *)
(* of the source is kept exact, as a reduced fraction [num, den]; amounts  *)
(* are in hundredths, as column basePrice holds them.                      *)
(***************************************************************************)
DefaultHospital == "hosp_sagrada_familia_001"

RECURSIVE Gcd(_, _)
Gcd(a, b) == IF b = 0 THEN a ELSE Gcd(b, a % b)

\* n / d for d > 0
Ratio(n, d) == LET g == Gcd(Abs(n), d) IN [num |-> n \div g, den |-> d \div g]
Zero == [num |-> 0, den |-> 1]
NotANumber == [num |-> 0, den |-> 0]

\* the percentage without its guard: 0 / 0 is NaN, n / 0 is Infinity
Percent_Unguarded(count, total) ==
    IF total # 0 THEN Ratio(count * 100, total) ELSE NotANumber

\* total > 0 ? (count / total) * 100 : 0
Percent(count, total) == IF total > 0 THEN Ratio(count * 100, total) ELSE Zero

\* the sum of f[i] over the ids
RECURSIVE SumOver(_, _)
SumOver(ids, f) ==
    IF ids = {} THEN 0
    ELSE LET i == CHOOSE j \in ids : TRUE IN f[i] + SumOver(ids \ {i}, f)

InWindow(date, window) == window.startDate <= date /\ date <= window.endDate

\* the rows a where clause selects, as their ids
CreatedIn(table, hId, window) ==
    {i \in 1..Len(table) :
        table[i].hospitalId = hId /\ InWindow(table[i].createdAt, window)}
PerformedIn(table, hId, window) ==
    {i \in 1..Len(table) :
        /\ table[i].hospitalId = hId
        /\ table[i].performedDate # <<>>
        /\ InWindow(table[i].performedDate[1], window)}
ScheduledIn(table, hId, window) ==
    {i \in 1..Len(table) :
        /\ table[i].hospitalId = hId
        /\ table[i].status = "SCHEDULED"
        /\ table[i].scheduledDate # <<>>
        /\ InWindow(table[i].scheduledDate[1], window)}
CancelledIn(table, hId, window) ==
    {i \in CreatedIn(table, hId, window) : table[i].status = "CANCELLED"}

\* prisma.procedure.aggregate: _avg and _sum skip NULL and are NULL over nothing
Aggregate(table, ids) ==
    LET timed == {i \in ids : table[i].duration # <<>>}
        priced == {i \in ids : table[i].basePrice # <<>>}
        Duration == [i \in timed |-> table[i].duration[1]]
        Price == [i \in priced |-> table[i].basePrice[1]]
    IN  [avgDuration |-> IF timed = {} THEN <<>>
                         ELSE <<Ratio(SumOver(timed, Duration), Cardinality(timed))>>,
         avgBasePrice |-> IF priced = {} THEN <<>>
                          ELSE <<Ratio(SumOver(priced, Price), Cardinality(priced))>>,
         sumBasePrice |-> IF priced = {} THEN <<>> ELSE <<SumOver(priced, Price)>>]

\* prisma.procedure.groupBy({by: [column], _count}): one row per value present;
\* the rows come in no requested order and are kept as a set
GroupBy(table, ids, column) ==
    {[key |-> v, count |-> Cardinality({i \in ids : table[i][column] = v})] :
        v \in {table[i][column] : i \in ids}}

\* byCategory.map / byComplexity.map
Breakdown(groups, realizados) ==
    {[name |-> g.key, quantidade |-> g.count,
      percentual |-> Percent(g.count, realizados)] : g \in groups}

\* Number(x || 0) of a nullable aggregate
OrZero(x) == IF x = <<>> THEN Zero ELSE x[1]

NoWindow == [threw |-> FALSE, startDate |-> 0, endDate |-> 0]
NoStats == [threw |-> FALSE, total_procedimentos |-> 0, realizados |-> 0, agendados |-> 0,
            cancelados |-> 0, taxa_realizacao |-> Zero, duracao_media |-> Zero,
            valor_total |-> 0, valor_medio |-> Zero, por_categoria |-> {},
            por_complexidade |-> {}]
NoAggregates == [avgDuration |-> <<>>, avgBasePrice |-> <<>>, sumBasePrice |-> <<>>]
NoPrevious == [period |-> "", date |-> 0, res |-> NoStats]

IdleStats == [pc |-> "idle", period |-> "", date |-> 0, window |-> NoWindow, queries |-> 0,
              total_procedimentos |-> 0, realizados |-> 0, agendados |-> 0,
              cancelados |-> 0, aggregates |-> NoAggregates, byCategory |-> {},
              res |-> NoStats, prev |-> NoPrevious]

\* AnalyticsController.getStatistics calls getProcedureStats(period, targetDate):
\* the window is resolved, or the unknown period throws
StatsStart(period, date) ==
    /\ stats.pc = "idle"
    /\ ncalls < MaxCalls
    /\ ncalls' = ncalls + 1
    /\ LET targetDate == IF date = <<>> THEN now ELSE date[1]
           window == getPeriodDates(period, targetDate)
       IN  stats' = [IdleStats EXCEPT
                        !.pc = IF window.threw THEN "done" ELSE "q_total",
                        !.period = period, !.date = date, !.window = window,
                        !.res = [NoStats EXCEPT !.threw = window.threw],
                        !.prev = stats.prev]
    /\ UNCHANGED <<rules, http, probe, metrics, now, portValidations, patients, procedures,
                   auditLog, events, busConnected, calls, lastWrite>>

\* one query of getProcedureStats resolves
StatsQuery(at, next, field, value) ==
    /\ stats.pc = at
    /\ stats' = [stats EXCEPT !.pc = next, ![field] = value, !.queries = @ + 1]
    /\ UNCHANGED <<rules, http, probe, metrics, now, portValidations, patients, procedures,
                   auditLog, events, busConnected, calls, lastWrite, ncalls>>

StatsCountTotal ==
    StatsQuery("q_total", "q_realizados", "total_procedimentos",
               Cardinality(CreatedIn(procedures, DefaultHospital, stats.window)))

StatsCountRealizados ==
    StatsQuery("q_realizados", "q_agendados", "realizados",
               Cardinality(PerformedIn(procedures, DefaultHospital, stats.window)))

StatsCountAgendados ==
    StatsQuery("q_agendados", "q_cancelados", "agendados",
               Cardinality(ScheduledIn(procedures, DefaultHospital, stats.window)))

StatsCountCancelados ==
    StatsQuery("q_cancelados", "q_aggregate", "cancelados",
               Cardinality(CancelledIn(procedures, DefaultHospital, stats.window)))

StatsAggregate ==
    StatsQuery("q_aggregate", "q_category", "aggregates",
               Aggregate(procedures, PerformedIn(procedures, DefaultHospital, stats.window)))

StatsByCategory ==
    StatsQuery("q_category", "q_complexity", "byCategory",
               GroupBy(procedures, PerformedIn(procedures, DefaultHospital, stats.window),
                       "category"))

\* the result getProcedureStats returns from its queries
ProcedureStats(s, byComplexity) ==
    [threw |-> FALSE,
     total_procedimentos |-> s.total_procedimentos,
     realizados |-> s.realizados,
     agendados |-> s.agendados,
     cancelados |-> s.cancelados,
     taxa_realizacao |-> Percent(s.realizados, s.total_procedimentos),
     duracao_media |-> OrZero(s.aggregates.avgDuration),
     valor_total |-> IF s.aggregates.sumBasePrice = <<>> THEN 0
                     ELSE s.aggregates.sumBasePrice[1],
     valor_medio |-> OrZero(s.aggregates.avgBasePrice),
     por_categoria |-> Breakdown(s.byCategory, s.realizados),
     por_complexidade |-> Breakdown(byComplexity, s.realizados)]

\* the last query resolves and getProcedureStats returns
StatsByComplexity ==
    /\ stats.pc = "q_complexity"
    /\ LET byComplexity ==
               GroupBy(procedures,
                       PerformedIn(procedures, DefaultHospital, stats.window), "complexity")
       IN  stats' = [stats EXCEPT !.pc = "done", !.queries = @ + 1,
                                  !.res = ProcedureStats(stats, byComplexity)]
    /\ UNCHANGED <<rules, http, probe, metrics, now, portValidations, patients, procedures,
                   auditLog, events, busConnected, calls, lastWrite, ncalls>>

\* the response is sent; the next request comes a day later
StatsRespond ==
    /\ stats.pc = "done"
    /\ stats' = [IdleStats EXCEPT
                    !.prev = [period |-> stats.period, date |-> stats.date,
                              res |-> stats.res]]
    /\ now' = now + MinutesPerDay
    /\ UNCHANGED <<rules, http, probe, metrics, portValidations, patients, procedures, auditLog,
                   events, busConnected, calls, lastWrite, ncalls>>

(***************************************************************************)
(* AnalyticsService: getTopProcedures, getEfficiencyMetrics,               *)
(* getCategoryAnalysis and getProceduresByPeriod, each called from its     *)
(* handler of AnalyticsController.  Each resolves its window, issues one   *)
(* query and computes its result from the rows.                            *)
(***************************************************************************)
InvalidPeriod == "Período inválido"
Infinity == [num |-> 1, den |-> 0]

\* n / d of two numbers, n >= 0 and d >= 0
Quotient(n, d) ==
    IF d = 0 THEN (IF n = 0 THEN NotANumber ELSE Infinity) ELSE Ratio(n, d)

\* Math.floor in place of Math.ceil
Ceil_Floor(n, d) == n \div d

\* Math.ceil(n / d), n >= 0 and d > 0
Ceil(n, d) == (n + d - 1) \div d

\* the rows of a findMany / $queryRaw, in table order
PerformedRows(table, hId, window) ==
    LET Selected(row) == /\ row.hospitalId = hId
                         /\ row.performedDate # <<>>
                         /\ InWindow(row.performedDate[1], window)
    IN  SelectSeq(table, Selected)

NoTally == [procedimentos_no_prazo |-> 0, procedimentos_atrasados |-> 0,
            total_atraso |-> 0, total_duracao |-> 0]

\* the tolerance of one hour taken as exclusive
TallyProc_Exclusive(proc, acc) ==
    LET diff == proc.performedDate[1] - proc.scheduledDate[1]
        timed == IF proc.scheduledDate = <<>> \/ proc.performedDate = <<>> THEN acc
                 ELSE IF diff < MinutesPerHour
                      THEN [acc EXCEPT !.procedimentos_no_prazo = @ + 1]
                      ELSE [acc EXCEPT !.procedimentos_atrasados = @ + 1,
                                       !.total_atraso = @ + diff]
    IN  IF proc.duration # <<>> /\ proc.duration[1] # 0
        THEN [timed EXCEPT !.total_duracao = @ + proc.duration[1]]
        ELSE timed

\* the body of procedures.forEach in getEfficiencyMetrics; total_atraso is kept in
\* minutes (diffHours = diff / 60)
TallyProc(proc, acc) ==
    LET diff == proc.performedDate[1] - proc.scheduledDate[1]
        timed == IF proc.scheduledDate = <<>> \/ proc.performedDate = <<>> THEN acc
                 ELSE IF diff <= MinutesPerHour
                      THEN [acc EXCEPT !.procedimentos_no_prazo = @ + 1]
                      ELSE [acc EXCEPT !.procedimentos_atrasados = @ + 1,
                                       !.total_atraso = @ + diff]
    IN  IF proc.duration # <<>> /\ proc.duration[1] # 0
        THEN [timed EXCEPT !.total_duracao = @ + proc.duration[1]]
        ELSE timed

RECURSIVE ForEachProc(_, _)
ForEachProc(procs, acc) ==
    IF procs = <<>> THEN acc ELSE ForEachProc(Tail(procs), TallyProc(Head(procs), acc))

\* dias of getEfficiencyMetrics
WindowDays(window) == Ceil(window.endDate - window.startDate, MinutesPerDay)

\* the value getEfficiencyMetrics returns for the rows found, with its local dias
ProcedureEfficiency(procs, window) ==
    LET t == ForEachProc(procs, NoTally)
        total == Len(procs)
        dias == WindowDays(window)
    IN  [procedimentos_no_prazo |-> t.procedimentos_no_prazo,
         procedimentos_atrasados |-> t.procedimentos_atrasados,
         taxa_pontualidade |-> Percent(t.procedimentos_no_prazo, total),
         tempo_medio_atraso |->
             IF t.procedimentos_atrasados > 0
             THEN Ratio(t.total_atraso, MinutesPerHour * t.procedimentos_atrasados)
             ELSE Zero,
         utilizacao_sala |-> Quotient(t.total_duracao * 100, dias * MinutesPerDay),
         procedimentos_por_dia |-> IF dias > 0 THEN Ratio(total, dias) ELSE Zero,
         dias |-> dias]

\* the sum of a nullable column over rows, NULL over nothing (_sum)
SumColumn(table, ids, column) ==
    LET present == {i \in ids : table[i][column] # <<>>}
        Value == [i \in present |-> table[i][column][1]]
    IN  IF present = {} THEN <<>> ELSE <<SumOver(present, Value)>>

\* prisma.procedure.groupBy({by: ['code', 'name', 'category'], _count, _sum})
TopGroups(table, ids) ==
    {[code |-> k[1], name |-> k[2], category |-> k[3],
      count |-> Cardinality({i \in ids : <<table[i].code, table[i].name,
                                           table[i].category>> = k}),
      sumBasePrice |-> SumColumn(table,
                           {i \in ids : <<table[i].code, table[i].name,
                                          table[i].category>> = k}, "basePrice"),
      sumDuration |-> SumColumn(table,
                          {i \in ids : <<table[i].code, table[i].name,
                                         table[i].category>> = k}, "duration")] :
        k \in {<<table[i].code, table[i].name, table[i].category>> : i \in ids}}

\* orderBy _count desc, take limit: the orders the database may return the groups
\* in (groups of equal count come in any order)
TopOrders(groups, limit) ==
    LET n == Min(IF limit < 0 THEN 0 ELSE limit, Cardinality(groups))
    IN  {q \in [1..n -> groups] :
            /\ \A i, j \in 1..n : i < j => q[i] # q[j] /\ q[i].count >= q[j].count
            /\ \A g \in groups :
                  (\A i \in 1..n : q[i] # g) => \A i \in 1..n : q[i].count >= g.count}

\* procedures.map of getTopProcedures; a sum of Number(x || 0)
TopProcedure(proc) ==
    LET valor == IF proc.sumBasePrice = <<>> THEN 0 ELSE proc.sumBasePrice[1]
        duracao == IF proc.sumDuration = <<>> THEN 0 ELSE proc.sumDuration[1]
    IN  [code |-> proc.code, name |-> proc.name, category |-> proc.category,
         total_realizados |-> proc.count,
         valor_total |-> valor,
         valor_medio |-> IF proc.count > 0 THEN Ratio(valor, proc.count) ELSE Zero,
         duracao_media |-> IF proc.count > 0 THEN Ratio(duracao, proc.count) ELSE Zero]

\* the value getCategoryAnalysis returns for the rows of the raw query
CategoryAnalysis(category, procs) ==
    LET ids == 1..Len(procs)
        total_procedimentos == Len(procs)
        Price == [i \in ids |-> IF procs[i].basePrice = <<>> THEN 0
                                ELSE procs[i].basePrice[1]]
        Duration == [i \in ids |-> IF procs[i].duration = <<>> THEN 0
                                   ELSE procs[i].duration[1]]
        duracao_total == SumOver(ids, Duration)
        com_complicacoes ==
            Cardinality({i \in ids : /\ procs[i].complications # <<>>
                                     /\ procs[i].complications[1] # ""})
    IN  [categoria |-> category,
         total_procedimentos |-> total_procedimentos,
         valor_total |-> SumOver(ids, Price),
         duracao_total |-> duracao_total,
         duracao_media |-> IF total_procedimentos > 0
                           THEN Ratio(duracao_total, total_procedimentos) ELSE Zero,
         procedimentos_complexos |->
             Cardinality({i \in ids : procs[i].complexity = "HIGH"}),
         taxa_complicacoes |-> Percent(com_complicacoes, total_procedimentos)]

\* findMany of getProceduresByPeriod: the ids of the rows in the orders
\* orderBy performedDate desc allows
PeriodOrders(table, hId, window, status) ==
    LET ids == {i \in PerformedIn(table, hId, window) :
                   status = "" \/ table[i].status = status}
        n == Cardinality(ids)
    IN  {q \in [1..n -> ids] :
            \A i, j \in 1..n :
                i < j => /\ q[i] # q[j]
                         /\ table[q[i]].performedDate[1] >= table[q[j]].performedDate[1]}

MetricsOperations ==
    {"getTopProcedures", "getEfficiencyMetrics", "getCategoryAnalysis",
     "getProceduresByPeriod"}

NoQuery == [period |-> "", date |-> <<>>, limit |-> 0, category |-> "", status |-> ""]
NoMetrics == [threw |-> FALSE, error |-> "", value |-> <<>>]
IdleMetrics == [pc |-> "idle", op |-> "", query |-> NoQuery, window |-> NoWindow,
                queries |-> 0, res |-> NoMetrics, httpStatus |-> 0]

\* a handler of AnalyticsController calls its operation of AnalyticsService: the
\* window is resolved, or the unknown period throws and the handler answers 500
MetricsStart(op, query) ==
    /\ metrics.pc = "idle"
    /\ op \in MetricsOperations
    /\ ncalls < MaxCalls
    /\ ncalls' = ncalls + 1
    /\ LET targetDate == IF query.date = <<>> THEN now ELSE query.date[1]
           window == getPeriodDates(query.period, targetDate)
       IN  metrics' = [IdleMetrics EXCEPT
                          !.pc = IF window.threw THEN "done" ELSE "m_query",
                          !.op = op, !.query = query, !.window = window,
                          !.res = IF window.threw
                                  THEN [NoMetrics EXCEPT !.threw = TRUE,
                                                         !.error = InvalidPeriod]
                                  ELSE NoMetrics,
                          !.httpStatus = IF window.threw THEN 500 ELSE 0]
    /\ UNCHANGED <<rules, http, probe, stats, now, portValidations, patients, procedures,
                   auditLog, events, busConnected, calls, lastWrite>>

\* the query of the operation resolves and the operation returns value
MetricsReturn(op, value) ==
    /\ metrics.pc = "m_query"
    /\ metrics.op = op
    /\ metrics' = [metrics EXCEPT !.pc = "done", !.queries = @ + 1,
                                  !.res = [NoMetrics EXCEPT !.value = value],
                                  !.httpStatus = 200]
    /\ UNCHANGED <<rules, http, probe, stats, now, portValidations, patients, procedures,
                   auditLog, events, busConnected, calls, lastWrite, ncalls>>

TopProceduresGroupBy ==
    \E q \in TopOrders(TopGroups(procedures,
                                 PerformedIn(procedures, DefaultHospital, metrics.window)),
                       metrics.query.limit) :
        MetricsReturn("getTopProcedures", [i \in DOMAIN q |-> TopProcedure(q[i])])

EfficiencyFindMany ==
    MetricsReturn("getEfficiencyMetrics",
                  ProcedureEfficiency(PerformedRows(procedures, DefaultHospital,
                                                    metrics.window), metrics.window))

CategoryAnalysisQuery ==
    LET InCategory(row) == row.category = metrics.query.category
    IN  MetricsReturn("getCategoryAnalysis",
                      CategoryAnalysis(metrics.query.category,
                          SelectSeq(PerformedRows(procedures, DefaultHospital,
                                                  metrics.window), InCategory)))

ProceduresByPeriodFindMany ==
    \E q \in PeriodOrders(procedures, DefaultHospital, metrics.window,
                          metrics.query.status) :
        MetricsReturn("getProceduresByPeriod", q)

\* the response is sent
MetricsRespond ==
    /\ metrics.pc = "done"
    /\ metrics' = IdleMetrics
    /\ UNCHANGED <<rules, http, probe, stats, now, portValidations, patients, procedures,
                   auditLog, events, busConnected, calls, lastWrite, ncalls>>

(***************************************************************************)
(* Spec: the lifecycle operations, one request at a time.                  *)
(***************************************************************************)
Init ==
    /\ rules = [c \in RuleCodes |-> NoRule]
    /\ http = IdleHttp
    /\ probe = IdleProbe
    /\ stats = IdleStats
    /\ metrics = IdleMetrics
    /\ patients = {"p1"}
    /\ procedures = <<>>
    /\ auditLog = <<>>
    /\ events = <<>>
    /\ busConnected \in BOOLEAN
    /\ portValidations = <<>>
    /\ now = StartOfService
    /\ calls = [k \in Clients |-> IdleCall]
    /\ lastWrite = <<>>
    /\ ncalls = 0

Step(k) ==
    \/ \E data \in CreateRequests : CreateSurgeryFindPatient(k, data)
    \/ CreateSurgeryPersist(k)
    \/ \E outcome \in {"sent", "skipped", "failed"} : CreateSurgeryPublish(k, outcome)
    \/ \E outcome \in {"sent", "skipped", "failed"} : CreateSurgeryAudit(k, outcome)
    \/ \E a \in GetRequests : GetSurgeryById(k, a)
    \/ \E confirmation \in ConfirmRequests : ConfirmPorteFind(k, confirmation)
    \/ ConfirmPorteUpdate(k)
    \/ \E rejected \in BOOLEAN : ConfirmPorteAudit(k, rejected)
    \/ \E outcome \in {"sent", "skipped", "failed"} : ConfirmPortePublish(k, outcome)
    \/ \E a \in StatusRequests : UpdateSurgeryStatusFind(k, a)
    \/ UpdateSurgeryStatusUpdate(k)
    \/ \E rejected \in BOOLEAN : UpdateSurgeryStatusAudit(k, rejected)
    \/ \E outcome \in {"sent", "skipped", "failed"} : UpdateSurgeryStatusPublish(k, outcome)
    \/ Respond(k)

Next == Step("w1")

Spec == Init /\ [][Next]_vars

(***************************************************************************)
(* SpecProcedures: the lifecycle operations of SurgeryService together     *)
(* with create / update / delete of ProcedureController, one request at a  *)
(* time, on the requests below.                                            *)
(***************************************************************************)
SurgeryRequests ==
    {r \in CreateRequests : r.patientId = "p1" /\ r.complexity \in {"PORTE_2", "PORTE_3"}}
PorteRequests ==
    {r \in ConfirmRequests : r.id = 1 /\ r.complexity = "PORTE_4"}
TransitionRequests ==
    {r \in StatusRequests : r.id = 1 /\ r.status \in {"COMPLETED", "SCHEDULED", "CANCELLED"}}

InitProcedures ==
    /\ rules = [c \in RuleCodes |-> NoRule]
    /\ http = IdleHttp
    /\ probe = IdleProbe
    /\ stats = IdleStats
    /\ metrics = IdleMetrics
    /\ LifecycleAtRest

StepProcedures(k) ==
    \/ \E data \in SurgeryRequests : CreateSurgeryFindPatient(k, data)
    \/ CreateSurgeryPersist(k)
    \/ \E outcome \in {"sent", "failed"} : CreateSurgeryPublish(k, outcome)
    \/ \E outcome \in {"sent", "failed"} : CreateSurgeryAudit(k, outcome)
    \/ \E confirmation \in PorteRequests : ConfirmPorteFind(k, confirmation)
    \/ ConfirmPorteUpdate(k)
    \/ \E rejected \in BOOLEAN : ConfirmPorteAudit(k, rejected)
    \/ \E outcome \in {"sent", "failed"} : ConfirmPortePublish(k, outcome)
    \/ \E a \in TransitionRequests : UpdateSurgeryStatusFind(k, a)
    \/ UpdateSurgeryStatusUpdate(k)
    \/ \E rejected \in BOOLEAN : UpdateSurgeryStatusAudit(k, rejected)
    \/ \E outcome \in {"sent", "failed"} : UpdateSurgeryStatusPublish(k, outcome)
    \/ \E body \in ImportRequests : ProcedureCreateFindPatient(k, body)
    \/ ProcedureCreatePatient(k)
    \/ ProcedureCreatePersist(k)
    \/ \E rejected \in BOOLEAN : ProcedureCreatePortValidation(k, rejected)
    \/ \E body \in UpdateRequests : ProcedureUpdateFind(k, body)
    \/ ProcedureUpdateUpdate(k)
    \/ \E a \in DeleteRequests : ProcedureDeleteFind(k, a)
    \/ ProcedureDeleteUpdate(k)
    \/ GetPendingSurgeries(k)
    \/ Respond(k)

\* a second client reads a procedure while the requests of the first are served
ReadProcedures(k) ==
    \/ \E a \in GetRequests : GetSurgeryById(k, a)
    \/ Respond(k)

NextProcedures == StepProcedures("w1") \/ ReadProcedures("w2")

SpecProcedures == InitProcedures /\ [][NextProcedures]_vars

(***************************************************************************)
(* SpecConcurrent: confirmPorte and updateSurgeryStatus called by two      *)
(* clients at once on one stored procedure, their awaits interleaving.     *)
(***************************************************************************)
StoredSurgery == CHOOSE r \in SurgeryRequests : r.complexity = "PORTE_2"
ConcurrentTransitions == {r \in TransitionRequests : r.status = "COMPLETED"}

InitConcurrent ==
    /\ rules = [c \in RuleCodes |-> NoRule]
    /\ http = IdleHttp
    /\ probe = IdleProbe
    /\ stats = IdleStats
    /\ metrics = IdleMetrics
    /\ patients = {"p1"}
    /\ now = StartOfService
    /\ procedures = <<CreatedRow(StoredSurgery)>>
    /\ auditLog = <<>>
    /\ events = <<>>
    /\ busConnected = TRUE
    /\ portValidations = <<>>
    /\ calls = [k \in Clients |-> IdleCall]
    /\ lastWrite = <<NoWrite>>
    /\ ncalls = 0

StepConcurrent(k) ==
    \/ \E confirmation \in PorteRequests : ConfirmPorteFind(k, confirmation)
    \/ ConfirmPorteUpdate(k)
    \/ \E rejected \in BOOLEAN : ConfirmPorteAudit(k, rejected)
    \/ \E outcome \in {"sent", "failed"} : ConfirmPortePublish(k, outcome)
    \/ \E a \in ConcurrentTransitions : UpdateSurgeryStatusFind(k, a)
    \/ UpdateSurgeryStatusUpdate(k)
    \/ \E rejected \in BOOLEAN : UpdateSurgeryStatusAudit(k, rejected)
    \/ \E outcome \in {"sent", "failed"} : UpdateSurgeryStatusPublish(k, outcome)
    \/ Respond(k)

NextConcurrent == \E k \in Clients : StepConcurrent(k)

SpecConcurrent == InitConcurrent /\ [][NextConcurrent]_vars

(***************************************************************************)
(* SpecImport: ProcedureController.create on request bodies with and       *)
(* without a porteValidation object and ports.                             *)
(***************************************************************************)
ImportBodies ==
    {[NoArgs EXCEPT !.procedureCode = code, !.patientId = patient,
                    !.reportedPorte = reported, !.validatedPorte = validated,
                    !.porteValidation = validation] :
        code \in {"IMP-1", "IMP-2"}, patient \in {"p1", "p2"},
        reported \in {0, 2}, validated \in {0, 3},
        validation \in {<<>>, <<[isValid |-> FALSE]>>, <<[isValid |-> TRUE]>>}}

InitImport ==
    /\ rules = [c \in RuleCodes |-> NoRule]
    /\ http = IdleHttp
    /\ probe = IdleProbe
    /\ stats = IdleStats
    /\ metrics = IdleMetrics
    /\ LifecycleAtRest

NextImport ==
    \/ \E body \in ImportBodies : ProcedureCreateFindPatient("w1", body)
    \/ ProcedureCreatePatient("w1")
    \/ ProcedureCreatePersist("w1")
    \/ \E rejected \in BOOLEAN : ProcedureCreatePortValidation("w1", rejected)
    \/ Respond("w1")

SpecImport == InitImport /\ [][NextImport]_vars

(***************************************************************************)
(* SpecStats: getProcedureStats on stored procedures that do not change.   *)
(***************************************************************************)
MaxRows == 2     \* procedures stored when the statistics are asked for

\* a procedure of the hospital performed on 2025-01-10, and variations of it
PerformedRow ==
    [NoRow EXCEPT !.code = "A", !.hospitalId = DefaultHospital,
                  !.category = "CARDIAC_SURGERY", !.complexity = "PORTE_2",
                  !.status = "COMPLETED", !.patientId = "p1",
                  !.createdAt = DateOf(2025, 1, 10, 8),
                  !.scheduledDate = <<DateOf(2025, 1, 10, 9)>>,
                  !.performedDate = <<DateOf(2025, 1, 10, 10)>>,
                  !.duration = <<60>>, !.estimatedDuration = <<45>>,
                  !.basePrice = <<150000>>]

AnalyticsRows ==
    {PerformedRow,
     [PerformedRow EXCEPT !.createdAt = DateOf(2025, 1, 5, 8),
                          !.performedDate = <<DateOf(2025, 1, 9, 23)>>,
                          !.category = "GENERAL_SURGERY", !.complexity = "PORTE_3",
                          !.duration = <<>>, !.basePrice = <<>>],
     [PerformedRow EXCEPT !.status = "SCHEDULED", !.performedDate = <<>>,
                          !.scheduledDate = <<DateOf(2025, 1, 10, 14)>>,
                          !.duration = <<>>],
     [PerformedRow EXCEPT !.status = "CANCELLED", !.performedDate = <<>>,
                          !.duration = <<>>],
     [PerformedRow EXCEPT !.hospitalId = "hosp_other", !.duration = <<90>>],
     [PerformedRow EXCEPT !.createdAt = DateOf(2024, 12, 1, 8),
                          !.performedDate = <<DateOf(2025, 1, 10, 23)>>,
                          !.duration = <<90>>, !.basePrice = <<25050>>],
     [PerformedRow EXCEPT !.createdAt = DateOf(2025, 1, 11, 0),
                          !.performedDate = <<DateOf(2025, 1, 11, 7)>>,
                          !.complexity = "PORTE_4", !.basePrice = <<999>>]}

RECURSIVE TablesUpTo(_)
TablesUpTo(n) ==
    IF n = 0 THEN {<<>>}
    ELSE TablesUpTo(n - 1) \cup
         {Append(t, r) : t \in {u \in TablesUpTo(n - 1) : Len(u) = n - 1},
                         r \in AnalyticsRows}

StatsPeriods == Periods \cup {"decade"}
StatsDates == {<<>>, <<DateOf(2025, 1, 10, 15)>>}

InitStats ==
    /\ rules = [c \in RuleCodes |-> NoRule]
    /\ http = IdleHttp
    /\ probe = IdleProbe
    /\ stats = IdleStats
    /\ metrics = IdleMetrics
    /\ patients = {"p1"}
    /\ procedures \in TablesUpTo(MaxRows)
    /\ auditLog = <<>>
    /\ events = <<>>
    /\ busConnected = TRUE
    /\ portValidations = <<>>
    /\ now = StartOfService
    /\ calls = [k \in Clients |-> IdleCall]
    /\ lastWrite = [i \in 1..Len(procedures) |-> NoWrite]
    /\ ncalls = 0

NextStats ==
    \/ \E period \in StatsPeriods, date \in StatsDates : StatsStart(period, date)
    \/ StatsCountTotal
    \/ StatsCountRealizados
    \/ StatsCountAgendados
    \/ StatsCountCancelados
    \/ StatsAggregate
    \/ StatsByCategory
    \/ StatsByComplexity
    \/ StatsRespond

SpecStats == InitStats /\ [][NextStats]_vars

(***************************************************************************)
(* SpecMetrics: the other four operations of AnalyticsService on stored    *)
(* procedures that do not change.                                          *)
(***************************************************************************)
\* a procedure of the hospital scheduled on 2025-01-10 at 09:00 and performed 45
\* minutes later, and variations of it
PunctualRow ==
    [PerformedRow EXCEPT !.performedDate = <<DateOf(2025, 1, 10, 9) + 45>>,
                         !.name = "Bypass"]

MetricsRows ==
    {PunctualRow,
     [PunctualRow EXCEPT !.performedDate = <<DateOf(2025, 1, 10, 9) + 90>>,
                         !.code = "B", !.name = "Hernia",
                         !.category = "GENERAL_SURGERY", !.duration = <<>>],
     [PunctualRow EXCEPT !.performedDate = <<DateOf(2025, 1, 10, 10)>>,
                         !.complexity = "HIGH", !.complications = <<"bleeding">>],
     [PunctualRow EXCEPT !.performedDate = <<DateOf(2025, 1, 10, 10) + 1>>,
                         !.status = "IN_PROGRESS", !.basePrice = <<>>],
     [PunctualRow EXCEPT !.scheduledDate = <<>>, !.duration = <<30>>],
     [PunctualRow EXCEPT !.performedDate = <<DateOf(2025, 1, 10, 8)>>,
                         !.code = "B", !.name = "Hernia"],
     [PunctualRow EXCEPT !.hospitalId = "hosp_other",
                         !.performedDate = <<DateOf(2025, 1, 10, 12)>>],
     [PunctualRow EXCEPT !.scheduledDate = <<DateOf(2025, 1, 2, 9)>>,
                         !.performedDate = <<DateOf(2025, 1, 2, 12)>>,
                         !.duration = <<120>>]}

RECURSIVE MetricsTablesUpTo(_)
MetricsTablesUpTo(n) ==
    IF n = 0 THEN {<<>>}
    ELSE MetricsTablesUpTo(n - 1) \cup
         {Append(t, r) : t \in {u \in MetricsTablesUpTo(n - 1) : Len(u) = n - 1},
                         r \in MetricsRows}

\* the requests: /top, /efficiency, /category/:category and /by-period
MetricsRequests ==
    LET Dated == {[NoQuery EXCEPT !.period = p, !.date = d] :
                     p \in {"day", "week", "decade"}, d \in StatsDates}
    IN  ({"getTopProcedures"} \X
            {[q EXCEPT !.limit = l] : q \in Dated, l \in {1, 10}})
        \cup ({"getEfficiencyMetrics"} \X Dated)
        \cup ({"getCategoryAnalysis"} \X
                 {[q EXCEPT !.category = "CARDIAC_SURGERY"] : q \in Dated})
        \cup ({"getProceduresByPeriod"} \X
                 {[q EXCEPT !.status = st] : q \in Dated, st \in {"", "COMPLETED"}})

InitMetrics ==
    /\ rules = [c \in RuleCodes |-> NoRule]
    /\ http = IdleHttp
    /\ probe = IdleProbe
    /\ stats = IdleStats
    /\ metrics = IdleMetrics
    /\ patients = {"p1"}
    /\ procedures \in MetricsTablesUpTo(MaxRows)
    /\ auditLog = <<>>
    /\ events = <<>>
    /\ busConnected = TRUE
    /\ portValidations = <<>>
    /\ now = StartOfService
    /\ calls = [k \in Clients |-> IdleCall]
    /\ lastWrite = [i \in 1..Len(procedures) |-> NoWrite]
    /\ ncalls = 0

NextMetrics ==
    \/ \E r \in MetricsRequests : MetricsStart(r[1], r[2])
    \/ TopProceduresGroupBy
    \/ EfficiencyFindMany
    \/ CategoryAnalysisQuery
    \/ ProceduresByPeriodFindMany
    \/ MetricsRespond

SpecMetrics == InitMetrics /\ [][NextMetrics]_vars

(***************************************************************************)
(* SpecAnalytics: the five operations of AnalyticsService, a statistics    *)
(* request and a request of another operation in flight together, on at    *)
(* most one stored procedure.                                              *)
(***************************************************************************)
MaxAnalyticsRows == 1     \* procedures stored while requests run together

AnalyticsPeriods == {"day", "decade", ""}

AnalyticsRequests ==
    {r \in MetricsRequests : r[2].period = "decade" /\ r[2].date # <<>>}
    \cup {<<op, [NoQuery EXCEPT !.period = p, !.limit = 10]>> :
             op \in MetricsOperations, p \in {"day", ""}}

InitAnalytics ==
    /\ rules = [c \in RuleCodes |-> NoRule]
    /\ http = IdleHttp
    /\ probe = IdleProbe
    /\ stats = IdleStats
    /\ metrics = IdleMetrics
    /\ patients = {"p1"}
    /\ procedures \in MetricsTablesUpTo(MaxAnalyticsRows)
    /\ auditLog = <<>>
    /\ events = <<>>
    /\ busConnected = TRUE
    /\ portValidations = <<>>
    /\ now = StartOfService
    /\ calls = [k \in Clients |-> IdleCall]
    /\ lastWrite = [i \in 1..Len(procedures) |-> NoWrite]
    /\ ncalls = 0

NextAnalytics ==
    \/ \E period \in AnalyticsPeriods : StatsStart(period, <<>>)
    \/ StatsCountTotal
    \/ StatsCountRealizados
    \/ StatsCountAgendados
    \/ StatsCountCancelados
    \/ StatsAggregate
    \/ StatsByCategory
    \/ StatsByComplexity
    \/ StatsRespond
    \/ \E r \in AnalyticsRequests : MetricsStart(r[1], r[2])
    \/ TopProceduresGroupBy
    \/ EfficiencyFindMany
    \/ CategoryAnalysisQuery
    \/ ProceduresByPeriodFindMany
    \/ MetricsRespond

SpecAnalytics == InitAnalytics /\ [][NextAnalytics]_vars

(***************************************************************************)
(* SpecInterleaved: getProcedureStats while ProcedureController.update     *)
(* writes the stored procedures, the update resolving between the queries. *)
(***************************************************************************)
InterleavedUpdates == {r \in UpdateRequests : r.id = 1}
InterleavedDate == <<ParseDate("2025-01-11")>>

InitInterleaved ==
    /\ rules = [c \in RuleCodes |-> NoRule]
    /\ http = IdleHttp
    /\ probe = IdleProbe
    /\ stats = IdleStats
    /\ metrics = IdleMetrics
    /\ patients = {"p1"}
    /\ procedures \in {t \in TablesUpTo(MaxAnalyticsRows) : t # <<>>}
    /\ auditLog = <<>>
    /\ events = <<>>
    /\ busConnected = TRUE
    /\ portValidations = <<>>
    /\ now = StartOfService
    /\ calls = [k \in Clients |-> IdleCall]
    /\ lastWrite = [i \in 1..Len(procedures) |-> NoWrite]
    /\ ncalls = 0

NextInterleaved ==
    \/ StatsStart("week", InterleavedDate)
    \/ StatsCountTotal
    \/ StatsCountRealizados
    \/ StatsCountAgendados
    \/ StatsCountCancelados
    \/ StatsAggregate
    \/ StatsByCategory
    \/ StatsByComplexity
    \/ StatsRespond
    \/ \E body \in InterleavedUpdates : ProcedureUpdateFind("w1", body)
    \/ ProcedureUpdateUpdate("w1")
    \/ Respond("w1")

SpecInterleaved == InitInterleaved /\ [][NextInterleaved]_vars

(***************************************************************************)
(* SpecWindow: getEfficiencyMetrics for every period and every reference   *)
(* day of 2024 and 2025, at the first and at the last minute of the day,   *)
(* with no procedure stored.                                               *)
(***************************************************************************)
WindowDates ==
    {<<day * MinutesPerDay + minute>> :
        day \in DayNumber(2024, 1, 1)..DayNumber(2025, 12, 31),
        minute \in {0, MinutesPerDay - 1}}

InitWindow ==
    /\ rules = [c \in RuleCodes |-> NoRule]
    /\ http = IdleHttp
    /\ probe = IdleProbe
    /\ stats = IdleStats
    /\ metrics = IdleMetrics
    /\ LifecycleAtRest

NextWindow ==
    \/ /\ metrics.pc = "idle"
       /\ \E p \in StatsPeriods, d \in WindowDates :
             MetricsStart("getEfficiencyMetrics",
                          [NoQuery EXCEPT !.period = p, !.date = d])
    \/ EfficiencyFindMany
    \/ MetricsRespond

SpecWindow == InitWindow /\ [][NextWindow]_vars

(***************************************************************************)
(* SpecPorte: validatePorte applied to request bodies, over every rule row.*)
(***************************************************************************)
RequestCodes == {"", "K1", "K2"}
ReportedPortes ==
    {Num(n) : n \in -1..(MaxPort + 2)} \cup
    {Absent, Str(<<>>), Str(<<"2">>), Str(<<"a", "b">>), Str(<<"3", "x">>),
     Str(<<" ", "1">>), Str(<<"0">>), Str(<<"-", "1">>)}

InitPorte ==
    /\ rules \in [RuleCodes -> RuleRows]
    /\ http = IdleHttp
    /\ probe = IdleProbe
    /\ stats = IdleStats
    /\ metrics = IdleMetrics
    /\ LifecycleAtRest

ValidatePorte(procedureCode, reportedPorte) ==
    /\ http' = [procedureCode |-> procedureCode, reportedPorte |-> reportedPorte,
                res |-> validatePorte(rules, procedureCode, reportedPorte)]
    /\ UNCHANGED <<rules, probe, stats, metrics>>
    /\ UNCHANGED lifecycleVars

NextPorte ==
    \E procedureCode \in RequestCodes, reportedPorte \in ReportedPortes :
        ValidatePorte(procedureCode, reportedPorte)

SpecPorte == InitPorte /\ [][NextPorte]_vars

(***************************************************************************)
(* SpecPrice: calculateBasePrice and requiresAudit applied to inputs.      *)
(***************************************************************************)
PriceComplexities == Complexities \cup LegacyComplexities

InitPrice ==
    /\ rules = [c \in RuleCodes |-> NoRule]
    /\ http = IdleHttp
    /\ probe = IdleProbe
    /\ stats = IdleStats
    /\ metrics = IdleMetrics
    /\ LifecycleAtRest

ApplyCalculateBasePrice(complexity, duration) ==
    /\ probe' = [fn |-> "calculateBasePrice", complexity |-> complexity,
                 duration |-> duration,
                 price |-> calculateBasePrice(complexity, duration),
                 audit |-> FALSE]
    /\ UNCHANGED <<rules, http, stats, metrics>>
    /\ UNCHANGED lifecycleVars

ApplyRequiresAudit(complexity) ==
    /\ probe' = [fn |-> "requiresAudit", complexity |-> complexity, duration |-> 0,
                 price |-> 0, audit |-> requiresAudit(complexity)]
    /\ UNCHANGED <<rules, http, stats, metrics>>
    /\ UNCHANGED lifecycleVars

NextPrice ==
    \/ \E c \in PriceComplexities, d \in (-MaxDuration)..MaxDuration :
          ApplyCalculateBasePrice(c, d)
    \/ \E c \in PriceComplexities : ApplyRequiresAudit(c)

SpecPrice == InitPrice /\ [][NextPrice]_vars

(***************************************************************************)
(* Properties of validatePorte (SpecPorte).                                *)
(***************************************************************************)
RequestRule == rules[http.procedureCode]
RequestHasActiveRule == HasActiveRule(rules, http.procedureCode)
RequestIsInteger == http.reportedPorte.t = "num"
InRange(p, rule) == rule.minimumPort <= p /\ p <= rule.maximumPort

\* C1: for a code with an active rule and every integer reported port p, the
\* response is a verdict with isValid = (minimumPort <= p <= maximumPort) and
\* expectedPorte = recommendedPort.
C1_ValidIffInRange ==
    (RequestHasActiveRule /\ RequestIsInteger) =>
        /\ http.res.status = 200
        /\ http.res.body.isValid = InRange(http.reportedPorte.n, RequestRule)
        /\ http.res.body.expectedPorte = Num(RequestRule.recommendedPort)

\* C2: for an active rule and an integer reported port, an invalid verdict has
\* severity HIGH iff |p - recommendedPort| >= 2, MEDIUM iff it is 1 and LOW iff it
\* is 0; every valid verdict has severity INFO.
C2_SeverityByDiscrepancy ==
    (http.res.status = 200 /\ RequestIsInteger) =>
        /\ http.res.body.isValid => http.res.body.severity = "INFO"
        /\ (RequestHasActiveRule /\ ~http.res.body.isValid) =>
              LET diff == Abs(http.reportedPorte.n - RequestRule.recommendedPort)
              IN  /\ (http.res.body.severity = "HIGH") = (diff >= 2)
                  /\ (http.res.body.severity = "MEDIUM") = (diff = 1)
                  /\ (http.res.body.severity = "LOW") = (diff = 0)

\* rule {minimumPort 2, maximumPort 3, recommendedPort 2}, reported port 4:
\* invalid, discrepancy 2, HIGH
C2_Witness ==
    /\ RequestHasActiveRule
    /\ RequestRule.minimumPort = 2 /\ RequestRule.maximumPort = 3
    /\ RequestRule.recommendedPort = 2
    /\ http.reportedPorte = Num(4)
    /\ http.res.status = 200
    /\ ~http.res.body.isValid
    /\ http.res.body.severity = "HIGH"

\* C3: for a code with no active rule (no row, or an inactive one) and every
\* reported port p, the response is the verdict isValid = true, severity INFO,
\* expectedPorte = reportedPorte.
C3_NoRuleAlwaysValid ==
    (http.procedureCode # "" /\ ~RequestHasActiveRule /\ RequestIsInteger) =>
        /\ http.res.status = 200
        /\ http.res.body.isValid
        /\ http.res.body.severity = "INFO"
        /\ http.res.body.expectedPorte = http.reportedPorte

(***************************************************************************)
(* Properties of the price model and the audit policy (SpecPrice).         *)
(***************************************************************************)
\* C4: requiresAudit answers for every complexity value: true exactly for
\* PORTE_3, PORTE_4 and PORTE_ESPECIAL, false for PORTE_1, PORTE_2 (and any other
\* value).
C4_RequiresAuditExactly ==
    probe.fn = "requiresAudit" =>
        /\ probe.complexity \in {"PORTE_3", "PORTE_4", "PORTE_ESPECIAL"} => probe.audit
        /\ probe.complexity \in {"PORTE_1", "PORTE_2"} => ~probe.audit
        /\ probe.complexity \notin Complexities => ~probe.audit

C4_Witness ==
    probe.fn = "requiresAudit" /\ probe.complexity = "PORTE_3" /\ probe.audit

\* C5: for every complexity, the price of a duration d <= 60 is at least the price
\* of 60 minutes, and above 60 minutes the price never decreases as d grows.
C5_PriceFloorAndMonotone ==
    probe.fn = "calculateBasePrice" =>
        /\ probe.duration <= 60 =>
              probe.price >= calculateBasePrice(probe.complexity, 60)
        /\ \A d \in 61..probe.duration :
              calculateBasePrice(probe.complexity, d) <= probe.price
        /\ probe.duration % 60 = 0 /\ probe.duration >= 60 /\ probe.complexity = "PORTE_1"
              => probe.price = 500 * (probe.duration \div 60)

\* PORTE_2 for 90 minutes costs 1.5 times the base rate; for 30 minutes the base rate
C5_Witness ==
    /\ probe.fn = "calculateBasePrice"
    /\ probe.complexity = "PORTE_2"
    /\ \/ probe.duration = 90 /\ probe.price = 2250
       \/ probe.duration = 30 /\ probe.price = 1500

(***************************************************************************)
(* Properties of the lifecycle (Spec).                                     *)
(***************************************************************************)
CallsOf(op) == {k \in Clients : calls[k].op = op}
Succeeded(k) == calls[k].pc = "done" /\ calls[k].res.ok
EventsOf(type, id) ==
    {i \in 1..Len(events) : events[i].type = type /\ events[i].procedureId = id}

\* C6: createSurgery with a negative estimatedDuration is rejected: it persists
\* no procedure and returns no amount.
C6_NegativeDurationRejected ==
    \A k \in CallsOf("createSurgery") :
        calls[k].a.estimatedDuration < 0 =>
            /\ calls[k].pc \notin {"cs_publish", "cs_audit"}
            /\ ~Succeeded(k)

\* the price a DECIMAL(10,2) column can give back for a supplied price
NearestCent(mills) ==
    LET m == Abs(mills)
        r == (m - (m % 10)) + (IF m % 10 >= 5 THEN 10 ELSE 0)
    IN  IF mills < 0 THEN -r ELSE r

\* a getSurgeryById that has just returned the procedure whose latest
\* classification write is a confirmPorte that returned success
ReadsConfirmed(k) ==
    /\ calls[k].op = "getSurgeryById"
    /\ Succeeded(k)
    /\ lastWrite[calls[k].id].returned

\* C7 as stated: after a successful confirmPorte(id, {c, d, p}) with no later
\* write, getSurgeryById(id) returns complexity = c, estimatedDuration = d and
\* basePrice = p.
C7_RoundTripExact ==
    \A k \in Clients :
        ReadsConfirmed(k) =>
            LET confirmation == lastWrite[calls[k].id].a
            IN  /\ calls[k].res.data.complexity = confirmation.complexity
                /\ calls[k].res.data.estimatedDuration = confirmation.estimatedDuration
                /\ calls[k].res.data.basePrice = confirmation.basePrice

\* C7 amended: the read returns complexity = c, estimatedDuration = d and
\* basePrice = p rounded to two decimals (halves away from zero), so p itself when
\* p has at most two decimals; it is the confirmed price, not calculateBasePrice(c, d).
C7_RoundTripToCents ==
    \A k \in Clients :
        ReadsConfirmed(k) =>
            LET confirmation == lastWrite[calls[k].id].a
            IN  /\ calls[k].res.data.complexity = confirmation.complexity
                /\ calls[k].res.data.estimatedDuration = confirmation.estimatedDuration
                /\ calls[k].res.data.basePrice = NearestCent(confirmation.basePrice)
                /\ confirmation.basePrice % 10 = 0 =>
                      calls[k].res.data.basePrice = confirmation.basePrice

\* a read after confirming 2500.00 for PORTE_3 / 45 min, which the price model
\* would price at 3000
C7_Witness ==
    \E k \in Clients :
        /\ ReadsConfirmed(k)
        /\ lastWrite[calls[k].id].a.basePrice = 2500000
        /\ calls[k].res.data.basePrice = 2500000
        /\ calculateBasePrice(calls[k].res.data.complexity,
                              calls[k].res.data.estimatedDuration) * Mills # 2500000

\* C8: the step of createSurgery that finds no patient row ends the call with
\* 'Patient not found' and changes neither a table nor the event stream.
C8_NoPatientNoWrite ==
    [][\A k \in Clients :
          (/\ calls[k].pc = "idle"
           /\ calls'[k].op = "createSurgery"
           /\ calls'[k].a.patientId \notin patients)
          => /\ calls'[k].pc = "done"
             /\ calls'[k].res = Failure("Patient not found")
             /\ UNCHANGED <<patients, procedures, auditLog, events>>]_vars

\* a createSurgery for patient p2 has failed after a procedure of p1 was stored
C8_Witness ==
    \E k \in CallsOf("createSurgery") :
        /\ calls[k].pc = "done"
        /\ calls[k].a.patientId \notin patients
        /\ calls[k].res.error = "Patient not found"
        /\ Len(procedures) = 1
        /\ \A i \in 1..Len(procedures) : procedures[i].patientId \in patients
        /\ \A i \in 1..Len(events) : events[i].procedureId = 1

\* C9: a successful createSurgery returns, and has stored, status SCHEDULED and
\* basePrice = calculateBasePrice(complexity, estimatedDuration); it returns
\* authorizationStatus PENDING iff requiresAuthorization (else NOT_REQUIRED) and
\* auditStatus PENDING_AUDIT whatever the complexity.
C9_CreatedDefaults ==
    \A k \in CallsOf("createSurgery") :
        Succeeded(k) =>
            LET data == calls[k].res.data
                request == calls[k].a
                row == procedures[calls[k].id]
                price == calculateBasePrice(request.complexity, request.estimatedDuration)
            IN  /\ data.status = "SCHEDULED" /\ row.status = "SCHEDULED"
                /\ data.basePrice = price * Mills
                /\ row.basePrice = <<price * 100>>
                /\ data.complexity = request.complexity
                /\ data.authorizationStatus =
                      (IF request.requiresAuthorization THEN "PENDING" ELSE "NOT_REQUIRED")
                /\ data.auditStatus = "PENDING_AUDIT"
                /\ request.complexity = "PORTE_ESPECIAL" /\ request.estimatedDuration = 90
                      => data.basePrice = 12000 * Mills

\* a PORTE_2 procedure (no audit required) created with auditStatus PENDING_AUDIT
C9_Witness ==
    \E k \in CallsOf("createSurgery") :
        /\ Succeeded(k)
        /\ calls[k].a.complexity = "PORTE_2"
        /\ ~calls[k].a.requiresAuthorization
        /\ calls[k].res.data.auditStatus = "PENDING_AUDIT"
        /\ calls[k].res.data.authorizationStatus = "NOT_REQUIRED"
        /\ calls[k].res.data.basePrice = 1500 * Mills

\* C10: createSurgery writes the row before it publishes anything; a successful
\* call has handed the publisher exactly one ProcedureCreated and, after it, one
\* AuditRequested iff requiresAudit(complexity), with priority URGENT for
\* PORTE_ESPECIAL and HIGH otherwise.  (An event counts as emitted when it is
\* handed to eventBusService, whatever the bus then does with it.)
C10_CreateEmitsInOrder ==
    /\ \A i \in 1..Len(events) : Exists(events[i].procedureId)
    /\ \A k \in CallsOf("createSurgery") :
          /\ calls[k].pc = "cs_publish" =>
                /\ Exists(calls[k].id)
                /\ EventsOf("ProcedureCreated", calls[k].id) = {}
                /\ EventsOf("AuditRequested", calls[k].id) = {}
          /\ calls[k].pc = "cs_audit" => EventsOf("AuditRequested", calls[k].id) = {}
          /\ Succeeded(k) =>
                LET id == calls[k].id
                    created == EventsOf("ProcedureCreated", id)
                    audits == EventsOf("AuditRequested", id)
                    urgent == calls[k].a.complexity = "PORTE_ESPECIAL"
                IN  /\ Exists(id)
                    /\ Cardinality(created) = 1
                    /\ Cardinality(audits) =
                          (IF calls[k].a.complexity \in {"PORTE_3", "PORTE_4", "PORTE_ESPECIAL"}
                           THEN 1 ELSE 0)
                    /\ \A i \in created, j \in audits :
                          /\ i < j
                          /\ events[j].priority = (IF urgent THEN "URGENT" ELSE "HIGH")

\* a PORTE_ESPECIAL procedure created: ProcedureCreated, then AuditRequested URGENT
C10_Witness ==
    \E k \in CallsOf("createSurgery") :
        /\ Succeeded(k)
        /\ calls[k].a.complexity = "PORTE_ESPECIAL"
        /\ Len(events) = 2
        /\ events[1].type = "ProcedureCreated"
        /\ events[2].type = "AuditRequested" /\ events[2].priority = "URGENT"

\* the operations that write a procedure and then publish
MutatingOperations == {"createSurgery", "confirmPorte", "updateSurgeryStatus"}

\* a call that has written its record and has been told of a failed publish
PublishFailedAfterWrite(k) ==
    /\ calls[k].op \in MutatingOperations
    /\ calls[k].pc = "done"
    /\ Exists(calls[k].id)
    /\ events # <<>>
    /\ events[Len(events)].procedureId = calls[k].id
    /\ events[Len(events)].outcome = "failed"
    /\ calls[k].res.error \notin {"audit log failed", "Unique constraint failed",
                                  "Surgery procedure not found", "Patient not found"}

\* C11: a failed publish of ProcedureCreated, PorteConfirmed, SurgeryStatusUpdated
\* or AuditRequested never changes the result: a call whose record mutation was
\* persisted returns success.
C11_PublishFailureNotEscalated ==
    \A k \in Clients : PublishFailedAfterWrite(k) => calls[k].res.ok

(***************************************************************************)
(* Properties of the status of a procedure (SpecProcedures).               *)
(***************************************************************************)
\* the transition graph of spec 4.1
AllowedTransition(s, t) ==
    \/ s = "SCHEDULED" /\ t = "CONFIRMED"
    \/ s = "CONFIRMED" /\ t = "IN_PROGRESS"
    \/ s = "IN_PROGRESS" /\ t = "COMPLETED"
    \/ s \notin {"COMPLETED", "CANCELLED"} /\ t \in {"CANCELLED", "POSTPONED"}

\* the call that is at its write of procedure id, if any
WritesStatus(k, id) ==
    /\ calls[k].id = id
    /\ \/ calls[k].pc = "us_update"
       \/ calls[k].pc = "pu_update" /\ calls[k].a.status # ""

\* C12 as stated: a status only moves along the transition graph, and a procedure
\* that is COMPLETED or CANCELLED never has a different status again.
C12_StatusFollowsGraph ==
    [][\A id \in 1..Len(procedures) :
          procedures'[id].status # procedures[id].status =>
              AllowedTransition(procedures[id].status, procedures'[id].status)]_vars

\* C12 amended: the graph is not enforced.  The status of an existing procedure
\* changes only in the update of an updateSurgeryStatus or ProcedureController.update
\* call for it, and then to the status the request names, whatever the current
\* status is (COMPLETED and CANCELLED included); it is always a value of the enum.
C12_StatusSetOnlyByRequest ==
    [][\A id \in 1..Len(procedures) :
          /\ procedures'[id].status \in Statuses
          /\ procedures'[id].status # procedures[id].status =>
                \E k \in Clients :
                    /\ WritesStatus(k, id)
                    /\ procedures'[id].status = calls[k].a.status
          /\ \A k \in Clients :
                WritesStatus(k, id) /\ calls'[k].pc # calls[k].pc =>
                    procedures'[id].status = calls[k].a.status]_vars

\* procedure 1 was COMPLETED and is SCHEDULED again
C12_Witness ==
    /\ Exists(1)
    /\ procedures[1].status = "SCHEDULED"
    /\ \E i \in 1..Len(auditLog) :
          /\ auditLog[i].entityId = 1
          /\ auditLog[i].oldValues.status = "COMPLETED"
          /\ auditLog[i].newValues.status = "SCHEDULED"

(***************************************************************************)
(* Properties of updateSurgeryStatus and of the NotFound failures (Spec).  *)
(***************************************************************************)
\* C13: updateSurgeryStatus on an existing procedure goes on to its write whatever
\* the current and the requested status are; the write stores the requested status,
\* the audit step appends one entry with action UPDATE, oldValues.status = the
\* previous status and newValues.status = the requested one, the publish step hands
\* over one SurgeryStatusUpdated, and the call succeeds only through these three.
C13_StatusUpdateAcceptsAny ==
    [][\A k \in Clients :
          LET c == calls[k]
              id == calls'[k].id
          IN  /\ (c.pc = "idle" /\ calls'[k].op = "updateSurgeryStatus" /\ Exists(id)) =>
                    calls'[k].pc = "us_update"
              /\ (c.pc = "us_update" /\ calls'[k].pc # c.pc) =>
                    /\ c.old.status = procedures[id].status
                    /\ procedures'[id].status = c.a.status
                    /\ calls'[k].pc = "us_audit"
                    /\ UNCHANGED <<auditLog, events>>
              /\ (c.pc = "us_audit" /\ calls'[k].pc = "us_publish") =>
                    /\ Len(auditLog') = Len(auditLog) + 1
                    /\ auditLog'[Len(auditLog')].action = "UPDATE"
                    /\ auditLog'[Len(auditLog')].entityId = id
                    /\ auditLog'[Len(auditLog')].oldValues.status = c.old.status
                    /\ auditLog'[Len(auditLog')].newValues.status = c.a.status
                    /\ UNCHANGED <<procedures, events>>
              /\ (c.pc = "us_publish" /\ calls'[k].pc # c.pc) =>
                    /\ Len(events') = Len(events) + 1
                    /\ events'[Len(events')].type = "SurgeryStatusUpdated"
                    /\ events'[Len(events')].procedureId = id
                    /\ UNCHANGED <<procedures, auditLog>>
              /\ (c.op = "updateSurgeryStatus" /\ c.pc # "done" /\ calls'[k].pc = "done"
                    /\ calls'[k].res.ok) =>
                    /\ c.pc = "us_publish"
                    /\ calls'[k].res.data.status = c.a.status]_vars

\* a COMPLETED procedure put to IN_PROGRESS: stored, audited and published
C13_Witness ==
    \E k \in CallsOf("updateSurgeryStatus") :
        /\ Succeeded(k)
        /\ calls[k].old.status = "COMPLETED"
        /\ calls[k].a.status = "IN_PROGRESS"
        /\ procedures[calls[k].id].status = "IN_PROGRESS"
        /\ auditLog[Len(auditLog)].oldValues.status = "COMPLETED"
        /\ auditLog[Len(auditLog)].newValues.status = "IN_PROGRESS"
        /\ events[Len(events)].type = "SurgeryStatusUpdated"

\* C14: confirmPorte and updateSurgeryStatus for an id that has no procedure row
\* end at once with 'Surgery procedure not found', and that step changes no
\* procedure, appends no audit entry and publishes no event.
C14_NotFoundNoWrite ==
    [][\A k \in Clients :
          (/\ calls[k].pc = "idle"
           /\ calls'[k].op \in {"confirmPorte", "updateSurgeryStatus"}
           /\ ~Exists(calls'[k].a.id))
          => /\ calls'[k].pc = "done"
             /\ calls'[k].res = Failure("Surgery procedure not found")
             /\ UNCHANGED <<patients, procedures, auditLog, events>>]_vars

\* a status update and a confirmation for id 2 have failed, procedure 1 untouched
C14_Witness ==
    \E k \in Clients :
        /\ calls[k].op \in {"confirmPorte", "updateSurgeryStatus"}
        /\ calls[k].pc = "done"
        /\ calls[k].a.id = 2
        /\ calls[k].res.error = "Surgery procedure not found"
        /\ Len(procedures) = 1
        /\ procedures[1].status = "SCHEDULED"
        /\ auditLog = <<>>

(***************************************************************************)
(* Properties of the audit trail and of the classification fields          *)
(* (SpecProcedures).                                                       *)
(***************************************************************************)
Classification(row) == <<row.complexity, row.estimatedDuration, row.basePrice>>

\* an audit entry of procedure id recording the change from row old to row new
RecordsChange(entry, id, old, new) ==
    /\ entry.entityId = id
    /\ old.status # new.status =>
          /\ entry.oldValues.status = old.status
          /\ entry.newValues.status = new.status
    /\ Classification(old) # Classification(new) =>
          /\ entry.oldValues.complexity = old.complexity
          /\ entry.oldValues.estimatedDuration = old.estimatedDuration
          /\ entry.oldValues.basePrice = old.basePrice
          /\ entry.newValues.complexity = new.complexity
          /\ entry.newValues.estimatedDuration = new.estimatedDuration
          /\ entry.newValues.action = "PORTE_CONFIRMED"

\* C15: every call that has changed the status or the classification (complexity,
\* estimatedDuration, basePrice) of an existing procedure has, when it returns
\* success, appended an audit entry for that procedure with the old and the new
\* values; the entry of a porte confirmation carries action PORTE_CONFIRMED.
C15_EveryChangeAudited ==
    \A k \in Clients :
        LET c == calls[k]
        IN  (/\ c.pc = "done"
             /\ c.res.ok
             /\ c.old # NoRow
             /\ \/ procedures[c.id].status # c.old.status
                \/ Classification(procedures[c.id]) # Classification(c.old))
            => /\ auditLog # <<>>
               /\ RecordsChange(auditLog[Len(auditLog)], c.id, c.old, procedures[c.id])

\* C16: in every step of createSurgery, confirmPorte, updateSurgeryStatus,
\* ProcedureController.update and ProcedureController.delete, the complexity,
\* estimatedDuration and basePrice of an existing procedure change only if the step
\* is the update of a confirmPorte call for that procedure.
C16_ClassificationOnlyByConfirm ==
    [][\A id \in 1..Len(procedures) :
          Classification(procedures'[id]) # Classification(procedures[id]) =>
              \E k \in CallsOf("confirmPorte") :
                  /\ calls[k].pc = "cp_update"
                  /\ calls[k].id = id
                  /\ calls'[k].pc = "cp_audit"]_vars

\* procedure SURG-1, created PORTE_2, confirmed PORTE_4, keeps that classification
\* through a later status update, update or delete
C16_Witness ==
    /\ Exists(1)
    /\ procedures[1].code = "SURG-1"
    /\ procedures[1].complexity = "PORTE_4"
    /\ procedures[1].estimatedDuration = <<120>>
    /\ \/ procedures[1].status # "SCHEDULED"
       \/ procedures[1].deletedAt # <<>>
       \/ procedures[1].performedDate # <<>>

(***************************************************************************)
(* Properties of the stored price and of performedDate.                    *)
(***************************************************************************)
\* C17: in every reachable state the stored basePrice of every procedure is >= 0,
\* whatever createSurgery and confirmPorte calls produced it.
C17_BasePriceNonNegative ==
    \A id \in 1..Len(procedures) :
        procedures[id].basePrice # <<>> => procedures[id].basePrice[1] >= 0

\* C18: performedDate is set only on completion: in every reachable state a
\* procedure with a performedDate has status COMPLETED.
C18_PerformedOnlyWhenCompleted ==
    \A id \in 1..Len(procedures) :
        procedures[id].performedDate # <<>> => procedures[id].status = "COMPLETED"

(***************************************************************************)
(* Properties of getProcedureStats (SpecStats).                            *)
(***************************************************************************)
\* a call that has returned and the call before it were made with the same period
\* and the same reference date, a day apart
RepeatsPrevious ==
    /\ stats.pc = "done"
    /\ stats.date # <<>>
    /\ stats.prev.period = stats.period
    /\ stats.prev.date = stats.date

PerformedInWindow ==
    {i \in 1..Len(procedures) :
        /\ procedures[i].hospitalId = DefaultHospital
        /\ procedures[i].performedDate # <<>>
        /\ procedures[i].performedDate[1] >= stats.window.startDate
        /\ procedures[i].performedDate[1] <= stats.window.endDate}
CreatedInWindow ==
    {i \in 1..Len(procedures) :
        /\ procedures[i].hospitalId = DefaultHospital
        /\ procedures[i].createdAt >= stats.window.startDate
        /\ procedures[i].createdAt <= stats.window.endDate}

\* C20: when no procedure has a performedDate in the window, getProcedureStats
\* returns (it does not throw) taxa_realizacao = 0, duracao_media = 0,
\* valor_total = 0, valor_medio = 0 and percentual = 0 in every entry of both
\* breakdowns; taxa_realizacao is 0 too whenever no procedure was created in the
\* window.
C20_NothingPerformedAllZero ==
    (stats.pc = "done" /\ stats.period \in Periods) =>
        /\ ~stats.res.threw
        /\ PerformedInWindow = {} =>
              /\ stats.res.realizados = 0
              /\ stats.res.taxa_realizacao = Zero
              /\ stats.res.duracao_media = Zero
              /\ stats.res.valor_total = 0
              /\ stats.res.valor_medio = Zero
              /\ \A e \in stats.res.por_categoria \cup stats.res.por_complexidade :
                    e.percentual = Zero
        /\ CreatedInWindow = {} => stats.res.taxa_realizacao = Zero

\* two procedures created in the window, none performed in it
C20_Witness ==
    /\ stats.pc = "done"
    /\ ~stats.res.threw
    /\ PerformedInWindow = {}
    /\ stats.res.total_procedimentos = 2
    /\ stats.res.cancelados = 1
    /\ stats.res.taxa_realizacao = Zero
    /\ stats.res.valor_medio = Zero

(***************************************************************************)
(* Properties of the other analytics operations (SpecMetrics, SpecWindow). *)
(***************************************************************************)
EfficiencyReturned ==
    /\ metrics.pc = "done"
    /\ metrics.op = "getEfficiencyMetrics"
    /\ ~metrics.res.threw

\* the procedures getEfficiencyMetrics judges: those of the hospital performed in
\* the window that have a scheduledDate; and the minutes each was performed after it
Judged ==
    {i \in 1..Len(procedures) :
        /\ procedures[i].hospitalId = DefaultHospital
        /\ procedures[i].performedDate # <<>>
        /\ procedures[i].performedDate[1] >= metrics.window.startDate
        /\ procedures[i].performedDate[1] <= metrics.window.endDate
        /\ procedures[i].scheduledDate # <<>>}
Delay == [i \in Judged |-> procedures[i].performedDate[1] - procedures[i].scheduledDate[1]]
Late == {i \in Judged : Delay[i] > 60}

\* C21: getEfficiencyMetrics counts a performed procedure with a scheduledDate as
\* on time iff it was performed at most one hour after its scheduledDate and as late
\* otherwise; tempo_medio_atraso is the mean, in hours, of that difference over the
\* late ones only, and 0 when none is late.
C21_OnTimeWithinOneHour ==
    EfficiencyReturned =>
        /\ metrics.res.value.procedimentos_no_prazo = Cardinality(Judged \ Late)
        /\ metrics.res.value.procedimentos_atrasados = Cardinality(Late)
        /\ metrics.res.value.tempo_medio_atraso =
              IF Late = {} THEN Zero
              ELSE Ratio(SumOver(Late, Delay), 60 * Cardinality(Late))

\* scheduled at 09:00: one performed at 09:45 is on time, one performed at 10:30 is
\* late and the mean delay is 1.5 h
C21_Witness ==
    /\ EfficiencyReturned
    /\ \E i \in Judged : Delay[i] = 45
    /\ \E i \in Judged : Delay[i] = 90
    /\ metrics.res.value.procedimentos_no_prazo = 1
    /\ metrics.res.value.procedimentos_atrasados = 1
    /\ metrics.res.value.tempo_medio_atraso = [num |-> 3, den |-> 2]

\* C22: each of getTopProcedures, getProcedureStats, getEfficiencyMetrics,
\* getCategoryAnalysis and getProceduresByPeriod, called with a period other than
\* day, week, month, quarter or year, fails with the invalid-period error and has
\* issued no storage query.
C22_UnknownPeriodFailsBeforeQuery ==
    /\ (stats.pc # "idle" /\ stats.period \notin {"day", "week", "month", "quarter", "year"})
          => stats.pc = "done" /\ stats.res.threw /\ stats.queries = 0
    /\ (metrics.pc # "idle"
           /\ metrics.query.period \notin {"day", "week", "month", "quarter", "year"})
          => /\ metrics.pc = "done"
             /\ metrics.res.threw
             /\ metrics.res.error = InvalidPeriod
             /\ metrics.res.value = <<>>
             /\ metrics.queries = 0

\* a statistics request and a top-procedures request with period 'decade', both
\* failed, with a procedure stored that a query would have found
C22_Witness ==
    /\ stats.pc = "done" /\ stats.period = "decade" /\ stats.res.threw
    /\ metrics.pc = "done" /\ metrics.op = "getTopProcedures"
    /\ metrics.query.period = "decade" /\ metrics.res.threw
    /\ metrics.httpStatus = 500
    /\ PerformedIn(procedures, DefaultHospital,
                   getPeriodDates("day", metrics.query.date[1])) # {}

\* C25: for every period of day, week, month, quarter and year and every reference
\* date, the window getPeriodDates resolves spans the reference day, and dias, the
\* ceiling of its length in days, is at least 1: utilizacao_sala and
\* procedimentos_por_dia of getEfficiencyMetrics are numbers, never a division by
\* zero.
C25_WindowDaysAtLeastOne ==
    EfficiencyReturned =>
        /\ metrics.window.endDate - metrics.window.startDate >= MinutesPerDay - 1
        /\ metrics.res.value.dias >= 1
        /\ metrics.res.value.dias * MinutesPerDay
              >= metrics.window.endDate - metrics.window.startDate
        /\ metrics.res.value.utilizacao_sala.den # 0
        /\ metrics.res.value.procedimentos_por_dia.den # 0

\* the year ending on 29 February 2024 starts on 1 March 2023 and has 366 days
C25_Witness ==
    /\ EfficiencyReturned
    /\ metrics.query.period = "year"
    /\ DayOf(metrics.query.date[1]) = DayNumber(2024, 2, 29)
    /\ metrics.window.startDate = DateOf(2023, 3, 1, 0)
    /\ metrics.res.value.dias = 366

(***************************************************************************)
(* Further properties of validatePorte (SpecPorte).                        *)
(***************************************************************************)
\* a reportedPorte that is absent, or a string without any digit
MissingOrNonNumeric(v) ==
    \/ v.t = "absent"
    \/ v.t = "str" /\ \A i \in DOMAIN v.s : ~IsDigit(v.s[i])

\* C23: validatePorte called without procedureCode, or with a reportedPorte that is
\* missing or not numeric, answers 400 before any rule lookup and returns no
\* verdict.
C23_BadInputRejectedBeforeLookup ==
    (http.res.status # 0
        /\ (http.procedureCode = "" \/ MissingOrNonNumeric(http.reportedPorte)))
    => /\ http.res.status = 400
       /\ ~http.res.lookup
       /\ http.res.body = NoVerdict

(***************************************************************************)
(* Properties of getPendingSurgeries (SpecProcedures).                     *)
(***************************************************************************)
\* the stored procedures whose status is SCHEDULED or CONFIRMED
Pending == {i \in 1..Len(procedures) : procedures[i].status \in {"SCHEDULED", "CONFIRMED"}}
ScheduledWithinDays(n) ==
    {i \in Pending :
        /\ procedures[i].scheduledDate # <<>>
        /\ DayOf(procedures[i].scheduledDate[1]) >= DayOf(now)
        /\ DayOf(procedures[i].scheduledDate[1]) < DayOf(now) + n}

\* C24: getPendingSurgeries reports, over exactly the procedures whose status is
\* SCHEDULED or CONFIRMED: their number, those with requiresAuthorization, those
\* with requiresAudit(complexity), those whose scheduled date is today / within the
\* next 7 days, and the first 10 of them in creation order.
C24_PendingSummary ==
    \A k \in Clients :
        (calls[k].pc = "done" /\ calls[k].op = "getPendingSurgeries") =>
            LET summary == calls[k].summary IN
            /\ summary.totalPending = Cardinality(Pending)
            /\ summary.pendingAuthorization =
                  Cardinality({i \in Pending : procedures[i].requiresAuthorization})
            /\ summary.pendingAudit =
                  Cardinality({i \in Pending :
                      procedures[i].complexity \in {"PORTE_3", "PORTE_4", "PORTE_ESPECIAL"}})
            /\ summary.scheduledToday = Cardinality(ScheduledWithinDays(1))
            /\ summary.scheduledThisWeek = Cardinality(ScheduledWithinDays(7))
            /\ Len(summary.recentActivity) = Cardinality(Pending)
            /\ \A m, n \in DOMAIN summary.recentActivity :
                  /\ summary.recentActivity[n].id \in Pending
                  /\ m < n => summary.recentActivity[m].id < summary.recentActivity[n].id

(***************************************************************************)
(* Properties of concurrent calls (SpecConcurrent).                        *)
(***************************************************************************)
\* call k appends its audit_logs row in this step
AppendsAudit(k) ==
    /\ calls[k].pc \in {"cp_audit", "us_audit"}
    /\ calls'[k].pc \in {"cp_publish", "us_publish"}
    /\ Len(auditLog') = Len(auditLog) + 1

\* C26: when confirmPorte and updateSurgeryStatus calls on one procedure interleave,
\* the oldValues of every audit_logs row are the values that were stored
\* immediately before the update of the call that writes the row.
C26_OldValuesAreReplacedValues ==
    [][\A k \in Clients :
          AppendsAudit(k) =>
              LET oldValues == auditLog'[Len(auditLog')].oldValues
                  replaced == calls[k].replaced
              IN  /\ calls[k].op = "confirmPorte" =>
                        /\ oldValues.complexity = replaced.complexity
                        /\ oldValues.estimatedDuration = replaced.estimatedDuration
                        /\ oldValues.basePrice = replaced.basePrice
                  /\ calls[k].op = "updateSurgeryStatus" =>
                        oldValues.status = replaced.status]_vars

(***************************************************************************)
(* Atomicity of confirmPorte and updateSurgeryStatus (Spec).               *)
(***************************************************************************)
\* call k has returned a failure from confirmPorte or updateSurgeryStatus on a
\* stored procedure
FailedUpdate(k) ==
    /\ calls[k].pc = "done"
    /\ calls[k].op \in {"confirmPorte", "updateSurgeryStatus"}
    /\ ~calls[k].res.ok
    /\ Exists(calls[k].id)

\* C27: confirmPorte and updateSurgeryStatus are all-or-nothing: when the call
\* returns a failure, the stored complexity, estimatedDuration, basePrice and status
\* of the procedure are those it had before the call.
C27_FailureLeavesProcedureUnchanged ==
    \A k \in Clients :
        FailedUpdate(k) =>
            LET before == calls[k].old
                stored == procedures[calls[k].id]
            IN  /\ stored.complexity = before.complexity
                /\ stored.estimatedDuration = before.estimatedDuration
                /\ stored.basePrice = before.basePrice
                /\ stored.status = before.status

(***************************************************************************)
(* Consistency of one getProcedureStats result (SpecInterleaved).          *)
(***************************************************************************)
Quantities(breakdown) == SumOver(breakdown, [e \in breakdown |-> e.quantidade])

\* C28: in every result of getProcedureStats the quantities of por_categoria add up
\* to realizados and so do those of por_complexidade, also when writes of
\* performedDate come between the queries of the call; with realizados > 0 each
\* percentual is its quantity over realizados, so the percentages add up to 100.
C28_BreakdownsAddUpToRealizados ==
    (stats.pc = "done" /\ ~stats.res.threw) =>
        /\ Quantities(stats.res.por_categoria) = stats.res.realizados
        /\ Quantities(stats.res.por_complexidade) = stats.res.realizados
        /\ stats.res.realizados > 0 =>
              \A e \in stats.res.por_categoria \cup stats.res.por_complexidade :
                  e.percentual.num * stats.res.realizados
                      = e.quantidade * 100 * e.percentual.den

(***************************************************************************)
(* Derived statuses of a SurgeryProcedure (SpecProcedures).                *)
(***************************************************************************)
AuditedComplexities == {"PORTE_3", "PORTE_4", "PORTE_ESPECIAL"}

\* a SurgeryProcedure whose auditStatus and authorizationStatus follow from its
\* complexity and its requiresAuthorization
DerivedStatuses(surgery) ==
    /\ surgery.auditStatus = IF surgery.complexity \in AuditedComplexities
                             THEN "PENDING_AUDIT" ELSE "NOT_REQUIRED"
    /\ surgery.authorizationStatus = IF surgery.requiresAuthorization
                                     THEN "PENDING" ELSE "NOT_REQUIRED"

\* the first client has a SurgeryProcedure returned by createSurgery and the second
\* one has read the same procedure with getSurgeryById before anything else was done
CreatedThenRead ==
    /\ calls["w1"].pc = "done" /\ calls["w1"].op = "createSurgery" /\ calls["w1"].res.ok
    /\ calls["w2"].pc = "done" /\ calls["w2"].op = "getSurgeryById" /\ calls["w2"].res.ok
    /\ calls["w1"].res.data.id = calls["w2"].res.data.id

\* C29: getSurgeryById, confirmPorte, updateSurgeryStatus and getPendingSurgeries
\* return auditStatus = PENDING_AUDIT iff requiresAudit(complexity), NOT_REQUIRED
\* otherwise, derived from the stored row at each read; the auditStatus createSurgery
\* returns equals the one of a getSurgeryById that follows it exactly when the
\* complexity is PORTE_3, PORTE_4 or PORTE_ESPECIAL.
C29_AuditStatusDerivedOnRead ==
    /\ \A k \in Clients :
          (calls[k].pc = "done" /\ calls[k].res.ok) =>
              /\ calls[k].op \in {"getSurgeryById", "confirmPorte", "updateSurgeryStatus"}
                    => DerivedStatuses(calls[k].res.data)
              /\ calls[k].op = "getPendingSurgeries"
                    => \A n \in DOMAIN calls[k].summary.recentActivity :
                           DerivedStatuses(calls[k].summary.recentActivity[n])
    /\ CreatedThenRead =>
          ((calls["w1"].res.data.auditStatus = calls["w2"].res.data.auditStatus)
              <=> calls["w1"].res.data.complexity \in AuditedComplexities)

\* a PORTE_2 surgery: createSurgery returned PENDING_AUDIT, the read that follows
\* returns NOT_REQUIRED
C29_Witness ==
    /\ CreatedThenRead
    /\ calls["w1"].res.data.complexity = "PORTE_2"
    /\ calls["w1"].res.data.auditStatus = "PENDING_AUDIT"
    /\ calls["w2"].res.data.auditStatus = "NOT_REQUIRED"

(***************************************************************************)
(* Properties of the port_validations rows (SpecImport).                   *)
(***************************************************************************)
\* C30: every port_validations row ProcedureController.create writes has
\* isValid = TRUE, whatever porteValidation.isValid the request carries; a row is
\* written only for a request with a porteValidation object and a non-zero
\* reportedPorte or validatedPorte; and the creation succeeds whether the row is
\* written or its write fails.
C30_PortValidationAlwaysValid ==
    [][\A k \in Clients :
          /\ \A n \in 1..Len(portValidations') : portValidations'[n].isValid
          /\ (calls[k].op = "ProcedureController.create"
                 /\ Len(portValidations') > Len(portValidations)
                 /\ calls'[k] # calls[k])
                => /\ calls[k].a.porteValidation # <<>>
                   /\ calls[k].a.reportedPorte # 0 \/ calls[k].a.validatedPorte # 0
                   /\ portValidations'[Len(portValidations')].procedureId = calls[k].id
          /\ (calls[k].pc = "pc_port" /\ calls'[k].pc = "done")
                => calls'[k].res.ok /\ Exists(calls[k].id)]_vars

\* a request with porteValidation.isValid = false has been answered with success and
\* its port_validations row says isValid = TRUE
C30_Witness ==
    /\ calls["w1"].pc = "done"
    /\ calls["w1"].op = "ProcedureController.create"
    /\ calls["w1"].res.ok
    /\ calls["w1"].a.porteValidation = <<[isValid |-> FALSE]>>
    /\ portValidations # <<>>
    /\ portValidations[Len(portValidations)].procedureId = calls["w1"].id
    /\ portValidations[Len(portValidations)].isValid

====
